---- MODULE Spec2Model ----
(***************************************************************************)
(* TaskHarvester: the action item extraction pipeline.                     *)
(*                                                                         *)
(* Two processors live in the repository:                                  *)
(*   - services/ai_processor_simple.py  AIProcessor (wired in by main.py): *)
(*     keyword/length relevance gate, model call, parser, threshold.       *)
(*   - services/ai_processor.py         AIProcessor: content-addressed     *)
(*     cache (utils/cache.py), score-based relevance gate, model call,     *)
(*     parser building pydantic ActionItemCreate objects, threshold.       *)
(* Both are modelled; an operator of the second carries the prefix Cached. *)
(*                                                                         *)
(* Confidence values are in hundredths (0.7 is 70).  Time is in seconds.   *)
(***************************************************************************)
EXTENDS Integers, Sequences, FiniteSets, TLC

(***************************************************************************)
(* Bounds of the model                                                     *)
(***************************************************************************)
\* longest "action_items" array the model backend emits
MaxItems == 2
\* number of clock steps (each of half a cache TTL)
MaxTicks == 2
\* model invocations followed for one content within one TTL window
MaxInvocations == 2
\* extract calls in flight at a time
MaxCalls == 2
\* requests the process serves
MaxRequests == 3

(***************************************************************************)
(* Program constants                                                       *)
(***************************************************************************)
\* extract_action_items: len(content.split()) > 50
WordLimit == 50
\* Settings.ai_confidence_threshold = 0.7 and AIProcessor.confidence_threshold = 0.7
DefaultThreshold == 70
\* CacheManager.cache_model_output(..., ttl=3600)
ModelOutputTTL == 3600
\* _classify_relevance: keyword_score / 5.0, in hundredths per keyword
KeywordWeight == 20
\* extract_action_items: relevance < 0.3
RelevanceFloor == 30
\* ai_processor_simple.py: max_content_length
MaxContentLength == 1500
\* ai_processor.py: content[:2000]
CachedMaxContentLength == 2000

\* the clock advances in steps of half a TTL
TickStep == ModelOutputTTL \div 2

(***************************************************************************)
(* Content: a string is a sequence of tokens, a token being a run of       *)
(* whitespace (" ") or a word.  Words stand for themselves.                *)
(***************************************************************************)
Space == " "

\* str.lower() on the words used here
Lower(tok) ==
    CASE tok = "PLEASE"   -> "please"
      [] tok = "Deadline" -> "deadline"
      [] tok = "REVIEW"   -> "review"
      [] OTHER            -> tok

\* `keyword in word`: substring test on the (lower-cased) words used here
Contains(word, keyword) ==
    \/ word = keyword
    \/ word = "tasks" /\ keyword = "task"
    \/ word = "reviewed" /\ keyword = "review"

\* ai_processor.py: action_keywords (single-word and phrase keywords)
CachedActionKeywords ==
    { "action required", "follow up", "deadline", "due date",
      "please", "need to", "should", "must", "will you",
      "can you", "todo", "task", "assignment", "complete",
      "deliver", "prepare", "schedule", "meeting" }

\* ai_processor_simple.py: action_keywords
ActionKeywords ==
    CachedActionKeywords \cup { "review", "send", "submit", "finish", "update" }

\* content.lower()
LowerContent(content) == [i \in DOMAIN content |-> Lower(content[i])]

\* sum(1 for keyword in keywords if keyword in content_lower)
KeywordCount(content, keywords) ==
    Cardinality({ k \in keywords :
                    \E i \in DOMAIN content : Contains(LowerContent(content)[i], k) })

\* len(content.split()): the number of words
WordCount(content) == Cardinality({ i \in DOMAIN content : content[i] # Space })

\* content.strip(): leading and trailing whitespace removed
RECURSIVE LStrip(_)
LStrip(s) == IF s # <<>> /\ Head(s) = Space THEN LStrip(Tail(s)) ELSE s
RECURSIVE RStrip(_)
RStrip(s) ==
    IF s # <<>> /\ s[Len(s)] = Space THEN RStrip(SubSeq(s, 1, Len(s) - 1)) ELSE s
StripContent(content) == RStrip(LStrip(content))

\* n plain words
Words(n) == [i \in 1..n |-> "w"]

EmptyContent     == << >>
SpacesContent    == << Space, Space >>
ShortPlain       == << "hello", Space, "w" >>
ShortOneKeyword  == << "PLEASE", Space, "w" >>
ShortTwoKeywords == << "PLEASE", Space, "Deadline" >>
ShortSimpleOnly  == << "REVIEW", Space, "w" >>
LongPlainAtLimit == Words(WordLimit)
LongPlain        == Words(WordLimit + 1)
LongTwoKeywords  == Words(WordLimit - 1) \o << "tasks", "deadline" >>
LongSimpleOnly   == Words(WordLimit) \o << "reviewed" >>

Contents ==
    { EmptyContent, SpacesContent, ShortPlain, ShortOneKeyword, ShortTwoKeywords,
      ShortSimpleOnly, LongPlainAtLimit, LongPlain, LongTwoKeywords, LongSimpleOnly }

\* s repeated n times
RECURSIVE Rep(_, _)
Rep(s, n) ==
    IF n = 0 THEN ""
    ELSE IF n % 2 = 1 THEN s \o Rep(s, n - 1)
    ELSE LET half == Rep(s, n \div 2) IN half \o half

\* the string the tokens of a content spell; two adjacent words are one blank apart
RECURSIVE Text(_)
Text(content) ==
    IF content = << >> THEN ""
    ELSE IF Len(content) = 1 THEN Head(content)
    ELSE IF Head(content) # Space /\ content[2] # Space
      THEN Head(content) \o Space \o Text(Tail(content))
      ELSE Head(content) \o Text(Tail(content))

\* two keywords, then one word that fills the text up to n characters
PaddedTo(n) ==
    LET lead == << "please", Space, "deadline", Space >>
    IN  lead \o << Rep("w", n - Len(Text(lead))) >>

\* contents around the limits of the prompt builders
PromptContents ==
    { PaddedTo(MaxContentLength - 1), PaddedTo(MaxContentLength),
      PaddedTo(MaxContentLength + 1), PaddedTo(CachedMaxContentLength + 1) }

SourceTypes == { "email", "meeting_transcript" }
SourceIds   == { "id1", "id2" }

(***************************************************************************)
(* JSON values of a candidate entry, as json.loads yields them             *)
(***************************************************************************)
Absent  == [t |-> "absent", s |-> "", n |-> 0]      \* the key is not in the object
JNull   == [t |-> "null",   s |-> "", n |-> 0]      \* null  -> None
JNaN    == [t |-> "nan",    s |-> "", n |-> 0]      \* NaN   -> float('nan')
JStr(x) == [t |-> "str",    s |-> x,  n |-> 0]
JNum(x) == [t |-> "num",    s |-> "", n |-> x]      \* a number, in hundredths
\* the array element itself is no object (a number, a text): it has no .get
NotAnObject == [t |-> "not_an_object", s |-> "", n |-> 0]

\* dict.get(key, default): the default only when the key is absent
Get(v, default) == IF v.t = "absent" THEN default ELSE v

\* bool(x) of Python
Truthy(v) ==
    CASE v.t = "absent" -> FALSE
      [] v.t = "null"   -> FALSE
      [] v.t = "str"    -> v.s # ""
      [] v.t = "num"    -> v.n # 0
      [] v.t = "nan"    -> TRUE
      [] OTHER          -> TRUE

\* str.strip() on the texts used here
StripText(x) ==
    CASE x = "   "           -> ""
      [] x = " Send report " -> "Send report"
      [] x = " John "        -> "John"
      [] OTHER               -> x

\* len(str) >= 1
NonEmptyText(x) == x # ""

\* float(x): the value, or the exception float raises.  A float is [nan, v].
NumericText(x) == x = "0.9"
Float(v) ==
    CASE v.t = "num"  -> [exc |-> "none", nan |-> FALSE, v |-> v.n]
      [] v.t = "nan"  -> [exc |-> "none", nan |-> TRUE,  v |-> 0]
      [] v.t = "str"  -> IF NumericText(v.s)
                           THEN [exc |-> "none", nan |-> FALSE, v |-> 90]
                           ELSE [exc |-> "ValueError", nan |-> FALSE, v |-> 0]
      [] OTHER        -> [exc |-> "TypeError", nan |-> FALSE, v |-> 0]

\* comparisons of floats: every comparison with NaN is False
FloatGE(f, bound) == ~f.nan /\ f.v >= bound
FloatLE(f, bound) == ~f.nan /\ f.v <= bound

\* 0.0 <= confidence <= 1.0
InUnitRange(f) == FloatGE(f, 0) /\ FloatLE(f, 100)

(***************************************************************************)
(* Candidate entries the model backend may emit                            *)
(***************************************************************************)
Entry(task, assignee, confidence) ==
    [task |-> task, assignee |-> assignee, priority |-> Absent, confidence |-> confidence]

\* the entry with "priority": p
Prioritized(e, p) == [e EXCEPT !.priority = p]

GoodEntry        == Entry(JStr("Pay invoice"), JStr(" John "), JNum(90))
AtDefaultEntry   == Entry(JStr(" Send report "), Absent, JNum(70))
WhitespaceEntry  == Entry(JStr("   "), Absent, JNum(90))
NoTaskEntry      == Entry(Absent, Absent, JNum(90))
OverEntry        == Entry(JStr("Pay invoice"), Absent, JNum(120))
NegativeEntry    == Entry(JStr("Pay invoice"), Absent, JNum(-10))
NaNEntry         == Entry(JStr("Pay invoice"), Absent, JNaN)
NoConfEntry      == Entry(JStr("Pay invoice"), Absent, Absent)
TextConfEntry    == Entry(JStr("Pay invoice"), Absent, JStr("high"))
NullConfEntry    == Entry(JStr("Pay invoice"), Absent, JNull)
\* an element of the array that is a bare number
ScalarElement    == Entry(NotAnObject, NotAnObject, NotAnObject)

Entries ==
    { GoodEntry, AtDefaultEntry, WhitespaceEntry, NoTaskEntry, OverEntry,
      NegativeEntry, NaNEntry, NoConfEntry, TextConfEntry, NullConfEntry,
      ScalarElement }

\* the values of "priority" in a candidate entry
Priorities ==
    { Absent, JNull, JStr("low"), JStr("high"), JStr("urgent"), JStr("critical"),
      JStr("HIGH"), JNum(100) }

RECURSIVE SeqsUpTo(_, _)
SeqsUpTo(S, n) ==
    IF n = 0 THEN { << >> }
    ELSE LET shorter == SeqsUpTo(S, n - 1)
         IN  shorter \cup { Append(q, e) : q \in { x \in shorter : Len(x) = n - 1 }, e \in S }

(***************************************************************************)
(* Responses of the model backend: what generate() yields, by the shape    *)
(* re.search(r"\{.*\}") and json.loads find in the text.                   *)
(***************************************************************************)
Response(shape, items) == [shape |-> shape, items |-> items]

\* generate() raises (connection error, timeout, non-success status)
BackendFailure == Response("failure", << >>)
\* prose without braces
NoJson         == Response("no_json", << >>)
\* braces around text that is no JSON
InvalidJson    == Response("invalid_json", << >>)
\* a JSON object without "action_items"
NoArrayField   == Response("no_field", << >>)
\* "action_items": null
NullField      == Response("null_field", << >>)
\* "action_items": "none"
TextField      == Response("text_field", << >>)
\* "action_items": [ {...}, ... ]
ItemsResponse(items) == Response("items", items)
\* "action_items": [1, 2]
ScalarArray    == ItemsResponse(<< ScalarElement, ScalarElement >>)
\* "action_items": [ {a valid candidate}, 1 ]
MixedArray     == ItemsResponse(<< GoodEntry, ScalarElement >>)

\* The raw text of an answer, as its pieces in order: ObjectText is the text
\* of one balanced JSON object {"action_items": [...]}; "{" and "}" are braces
\* in the text around it; every other piece is text without a brace.
ObjectText == "{\"action_items\": [...]}"
RawResponse(text, items) == [shape |-> "raw", items |-> items, text |-> text]

NoMatch == << "<no match>" >>

\* re.search(r"\{.*\}", response, re.DOTALL).group(): from the first "{" of the
\* text to its last "}"
RegexGroup(text) ==
    LET opens  == { i \in DOMAIN text : text[i] \in { "{", ObjectText } }
        closes == { i \in DOMAIN text : text[i] \in { "}", ObjectText } }
        first  == CHOOSE i \in opens  : \A j \in opens  : i <= j
        final  == CHOOSE i \in closes : \A j \in closes : j <= i
    IN  IF opens = {} \/ closes = {} THEN NoMatch
        ELSE IF first > final THEN NoMatch
        ELSE SubSeq(text, first, final)

\* json.loads(group): the text of one object and nothing else decodes
JsonLoads(group) == IF group = << ObjectText >> THEN "none" ELSE "JSONDecodeError"

\* the balanced object between prose, code fences, and braces before or after
RawTexts ==
    { << ObjectText >>,
      << "Here are the tasks: ", ObjectText >>,
      << "<code fence>json\n", ObjectText, "\n<code fence>" >>,
      << ObjectText, " Let me know." >>,
      << ObjectText, " Format: ", "{", "task", "}" >>,
      << ObjectText, "}" >>,
      << "{", "see", "}", " ", ObjectText >>,
      << "}", " no object ", "{" >> }

MalformedResponses ==
    { NoJson, InvalidJson, NoArrayField, NullField, TextField, ScalarArray, MixedArray }

(***************************************************************************)
(* Returned items.  cls is the class of the element:                       *)
(*   "ActionItem"        ai_processor_simple.ActionItem (dataclass)        *)
(*   "ActionItemCreate"  models.action_item.ActionItemCreate (pydantic)    *)
(*   "str"               the text str(item) that json.dumps(default=str)   *)
(*                       writes for an object it cannot encode             *)
(***************************************************************************)
NoneText == "<None>"
\* ActionItemCreate has no source attribute
NoSource == "<no source>"

\* the source without the source type
FormatSource_IdOnly(source_type, source_id) == source_id

\* f"{source_type}:{source_id}"
FormatSource(source_type, source_id) == source_type \o ":" \o source_id

\* The record holds the task text and the confidence of the object under the
\* names task and confidence, whatever its class calls them; the names the class
\* gives its attributes are ActionItemAttributes and ActionItemCreateAttributes.
Item(cls, task, assignee, priority, confidence, source) ==
    [cls |-> cls, task |-> task, assignee |-> assignee, priority |-> priority,
     confidence |-> confidence, source |-> source]

\* the Python value of a JSON value, as the text that tells it from the others
PyValue(v) ==
    CASE v.t = "str"  -> v.s
      [] v.t = "null" -> NoneText
      [] OTHER        -> "<number>"

\* priority=item_data.get("priority", "medium")
SimplePriority(v) == PyValue(Get(v, JStr("medium")))

\* the fields of the dataclass ActionItem
ActionItemAttributes ==
    { "task", "assignee", "deadline", "priority", "confidence", "context", "source" }

\* the fields of the pydantic model ActionItemCreate
ActionItemCreateAttributes ==
    { "task_description", "assignee_email", "deadline", "priority", "context",
      "confidence_score", "source_id", "source_type" }

\* item.<name> raises AttributeError on an object without the attribute
HasAttribute(item, name) ==
    CASE item.cls = "ActionItem"       -> name \in ActionItemAttributes
      [] item.cls = "ActionItemCreate" -> name \in ActionItemCreateAttributes
      [] OTHER                         -> FALSE

Skip       == [kind |-> "skip",  exc |-> "none", item |-> << >>]
Raise(exc) == [kind |-> "raise", exc |-> exc,    item |-> << >>]
Keep(item) == [kind |-> "item",  exc |-> "none", item |-> << item >>]

\* except (json.JSONDecodeError, KeyError, ValueError) of _parse_llm_response;
\* pydantic's ValidationError is a ValueError
CaughtByParser == { "JSONDecodeError", "KeyError", "ValueError", "ValidationError" }

Parsed(exc, items) == [exc |-> exc, items |-> items]

(***************************************************************************)
(* ai_processor_simple.py: AIProcessor._parse_llm_response                 *)
(***************************************************************************)
\* the range check without the test of the task
SimpleKeeps_AnyTask(conf, task) == InUnitRange(conf)

\* the range check without its upper bound
SimpleKeeps_NoUpperBound(conf, task) == FloatGE(conf, 0) /\ NonEmptyText(task)

\* if 0.0 <= action_item.confidence <= 1.0 and action_item.task
SimpleKeeps(conf, task) == InUnitRange(conf) /\ NonEmptyText(task)

\* one pass of the loop body over item_data
SimpleParseEntry(e, source_type, source_id) ==
    IF e.task = NotAnObject THEN Raise("AttributeError")      \* (1).get
    ELSE IF ~Truthy(e.task) THEN Skip                         \* if not item_data.get("task")
    ELSE IF e.task.t # "str" THEN Raise("AttributeError")     \* .strip() of a non-string
    ELSE IF Get(e.assignee, JStr("")).t # "str" THEN Raise("AttributeError")
    ELSE LET task     == StripText(e.task.s)
             stripped == StripText(Get(e.assignee, JStr("")).s)
             assignee == IF stripped = "" THEN NoneText ELSE stripped
             conf     == Float(Get(e.confidence, JNum(0)))
         IN  IF conf.exc # "none" THEN Raise(conf.exc)
             ELSE IF SimpleKeeps(conf, task)
                  THEN Keep(Item("ActionItem", task, assignee, SimplePriority(e.priority),
                                 [nan |-> conf.nan, v |-> conf.v],
                                 FormatSource(source_type, source_id)))
                  ELSE Skip

RECURSIVE SimpleParseItems(_, _, _, _)
SimpleParseItems(entries, acc, source_type, source_id) ==
    IF entries = << >> THEN Parsed("none", acc)
    ELSE LET r == SimpleParseEntry(Head(entries), source_type, source_id)
         IN  CASE r.kind = "raise" ->
                    IF r.exc \in CaughtByParser THEN Parsed("none", << >>)
                                                ELSE Parsed(r.exc, << >>)
               [] r.kind = "skip"  ->
                    SimpleParseItems(Tail(entries), acc, source_type, source_id)
               [] r.kind = "item"  ->
                    SimpleParseItems(Tail(entries), acc \o r.item, source_type, source_id)

\* the exception the part before the loop ends with, "none" when it reaches the loop
ShapeOutcome(response) ==
    CASE response.shape = "no_json"      -> "return_empty"      \* if not json_match
      [] response.shape = "invalid_json" -> "JSONDecodeError"   \* json.loads
      [] response.shape = "no_field"     -> "return_empty"      \* data.get(.., [])
      [] response.shape = "null_field"   -> "TypeError"         \* for .. in None
      [] response.shape = "text_field"   -> "AttributeError"    \* "n".get
      [] response.shape = "items"        -> "none"
      [] response.shape = "raw"          ->
            LET group == RegexGroup(response.text)
            IN  IF group = NoMatch THEN "return_empty" ELSE JsonLoads(group)

SimpleParse(response, source_type, source_id) ==
    LET o == ShapeOutcome(response)
    IN  CASE o = "none"            -> SimpleParseItems(response.items, << >>, source_type, source_id)
          [] o = "return_empty"    -> Parsed("none", << >>)
          [] o \in CaughtByParser  -> Parsed("none", << >>)
          [] OTHER                 -> Parsed(o, << >>)

(***************************************************************************)
(* ai_processor.py: AIProcessor._parse_llm_response                        *)
(***************************************************************************)
\* ActionItemBase.task_description: str = Field(..., min_length=1)
ValidTaskDescription(v) == v.t = "str" /\ NonEmptyText(v.s)
\* ActionItemBase.assignee_email: Optional[str]
ValidAssignee(v) == v.t \in { "str", "null" }
\* ActionItemBase.priority: Priority = Priority.MEDIUM, of models/action_item.py
ValidPriority(v) == v.t = "str" /\ v.s \in { "low", "medium", "high" }
\* ActionItemCreate.confidence_score: float = Field(..., ge=0.0, le=1.0)
ValidConfidenceScore(f) == InUnitRange(f)

\* _resolve_assignee_email: assignee_name if assignee_name else None
ResolveAssignee(v) == IF Truthy(v) THEN v.s ELSE NoneText

CachedParseEntry(e, threshold) ==
    LET task == Get(e.task, JStr(""))
        who  == Get(e.assignee, JStr(""))
        conf == Float(Get(e.confidence, JNum(0)))
    IN  IF e.task = NotAnObject THEN Raise("AttributeError")  \* (1).get
        ELSE IF conf.exc # "none" THEN Raise(conf.exc)
        ELSE IF ~(/\ ValidTaskDescription(task)
                  /\ ValidAssignee(IF Truthy(who) THEN who ELSE JNull)
                  /\ ValidPriority(Get(e.priority, JStr("medium")))
                  /\ ValidConfidenceScore(conf))
             THEN Raise("ValidationError")
        ELSE IF Truthy(task) /\ FloatGE(conf, threshold)
             THEN Keep(Item("ActionItemCreate", task.s, ResolveAssignee(who),
                            PyValue(Get(e.priority, JStr("medium"))),
                            [nan |-> conf.nan, v |-> conf.v], NoSource))
             ELSE Skip

RECURSIVE CachedParseItems(_, _, _)
CachedParseItems(entries, acc, threshold) ==
    IF entries = << >> THEN Parsed("none", acc)
    ELSE LET r == CachedParseEntry(Head(entries), threshold)
         IN  CASE r.kind = "raise" ->
                    IF r.exc \in CaughtByParser THEN Parsed("none", << >>)
                                                ELSE Parsed(r.exc, << >>)
               [] r.kind = "skip"  -> CachedParseItems(Tail(entries), acc, threshold)
               [] r.kind = "item"  -> CachedParseItems(Tail(entries), acc \o r.item, threshold)

CachedParse(response, threshold) ==
    LET o == ShapeOutcome(response)
    IN  CASE o = "none"            -> CachedParseItems(response.items, << >>, threshold)
          [] o = "return_empty"    -> Parsed("none", << >>)
          [] o \in CaughtByParser  -> Parsed("none", << >>)
          [] OTHER                 -> Parsed(o, << >>)

\* the list returned as parsed, without the threshold filter
FilterByConfidence_Unfiltered(items, threshold) == items

\* [item for item in action_items if item.confidence >= self.confidence_threshold]
FilterByConfidence(items, threshold) ==
    SelectSeq(items, LAMBDA it : FloatGE(it.confidence, threshold))

\* the comprehension reads item.confidence of every element
FilterRaises(items) ==
    \E i \in DOMAIN items : ~HasAttribute(items[i], "confidence")

(***************************************************************************)
(* Prompt builders.  Texts are strings; the fixed text of a template is    *)
(* abridged, the places of its fields are kept.                            *)
(***************************************************************************)
\* text[:n]
Prefix(text, n) == IF Len(text) > n THEN SubSeq(text, 1, n) ELSE text

\* if len(content) > max_content_length: content = content[:max_content_length] + "..."
SimpleEmbedded(text) ==
    IF Len(text) > MaxContentLength THEN Prefix(text, MaxContentLength) \o "..." ELSE text

\* a builder that embeds a text kept on the processor by an earlier request
SimpleBuildExtractionPrompt_Stale(text, source_type) ==
    [template |-> "simple", source_type |-> source_type, content |-> "an earlier request",
     people |-> << >>, dates |-> << >>]

\* ai_processor_simple.py: AIProcessor._build_extraction_prompt, by its fields
SimpleBuildExtractionPrompt(text, source_type) ==
    [template |-> "simple", source_type |-> source_type, content |-> SimpleEmbedded(text),
     people |-> << >>, dates |-> << >>]

\* {content[:2000]}
CachedEmbedded(text) == Prefix(text, CachedMaxContentLength)

\* _extract_entities: the texts used here name no person, date or organization
ExtractEntities(text) == [people |-> << >>, dates |-> << >>, organizations |-> << >>]

\* source_type.upper()
Upper(source_type) ==
    CASE source_type = "email"              -> "EMAIL"
      [] source_type = "meeting_transcript" -> "MEETING_TRANSCRIPT"
      [] OTHER                              -> source_type

\* ai_processor.py: AIProcessor._build_extraction_prompt, by its fields
CachedBuildExtractionPrompt(text, source_type, entities) ==
    [template |-> "cached", source_type |-> Upper(source_type),
     content |-> CachedEmbedded(text),
     people |-> entities.people, dates |-> entities.dates]

\* ', '.join(names)
RECURSIVE Join(_)
Join(names) ==
    IF names = << >> THEN ""
    ELSE IF Len(names) = 1 THEN Head(names)
    ELSE Head(names) \o ", " \o Join(Tail(names))

\* the string of a prompt
PromptText(prompt) ==
    IF prompt.template = "simple"
    THEN "You are an expert assistant [...]\n\nCONTENT TO ANALYZE ("
           \o prompt.source_type \o "):\n" \o prompt.content
           \o "\n\nTASK:\n[...]\n\nExtract action items (JSON only):"
    ELSE "\nEXTRACT ACTION ITEMS FROM: " \o prompt.source_type
           \o "\n\nCONTENT:\n" \o prompt.content
           \o "  # Limit content length\n\nINSTRUCTIONS:\n[...]\nDETECTED ENTITIES:\nPeople: "
           \o Join(prompt.people) \o "\nDates: " \o Join(prompt.dates)
           \o "\n\nOUTPUT FORMAT (JSON):\n[...]\nExtract action items:\n"

NoPrompt ==
    [template |-> "none", source_type |-> "", content |-> "", people |-> << >>,
     dates |-> << >>]

(***************************************************************************)
(* Relevance gates                                                         *)
(***************************************************************************)
\* the counts of the contents of the model, computed once
SimpleKeywordCount == [c \in Contents \cup PromptContents |-> KeywordCount(c, ActionKeywords)]
CachedKeywordCount == [c \in Contents \cup PromptContents |-> KeywordCount(c, CachedActionKeywords)]
ContentWordCount   == [c \in Contents \cup PromptContents |-> WordCount(c)]
ContentIsBlank     == [c \in Contents \cup PromptContents |-> StripContent(c) = << >>]

\* the length test off by one word
SimpleIrrelevant_OffByOne(content) ==
    SimpleKeywordCount[content] = 0 /\ ContentWordCount[content] > WordLimit + 1

\* ai_processor_simple.py: keyword_count == 0 and len(content.split()) > 50
SimpleIrrelevant(content) ==
    SimpleKeywordCount[content] = 0 /\ ContentWordCount[content] > WordLimit

Min(a, b) == IF a <= b THEN a ELSE b

\* ai_processor.py: _classify_relevance, in hundredths
ClassifyRelevance(content, source_type) ==
    LET score == Min(CachedKeywordCount[content] * KeywordWeight, 100)
    IN  IF source_type = "meeting_transcript"
        THEN Min((score * 12) \div 10, 100)
        ELSE score

\* ai_processor.py: relevance < 0.3
CachedIrrelevant(content, source_type) ==
    ClassifyRelevance(content, source_type) < RelevanceFloor

(***************************************************************************)
(* utils/cache.py: CacheManager                                            *)
(***************************************************************************)
\* hashlib.md5(content.encode()).hexdigest(): a digest of the content alone
\* (taken as collision free: the digest stands for the content it was made of)
GenerateContentHash(content) == [md5 |-> content]

\* f"model_output:{content_hash}"
ModelOutputKey(content_hash) == [prefix |-> "model_output", hash |-> content_hash]

\* str(item): the text of a pydantic object; a str stays a str
Str(item) == [item EXCEPT !.cls = "str"]

\* json.dumps(value, default=str) then json.loads: a list of objects that json
\* cannot encode comes back as the list of their texts
SerializeValue(value) == [json |-> [i \in DOMAIN value |-> Str(value[i])]]
DeserializeValue(stored) == stored.json

\* CacheManager.set: the store after set(key, value, ttl) at time t
CacheSet(store, key, value, ttl, t) ==
    [k \in DOMAIN store \cup { key } |->
        IF k = key THEN [value |-> SerializeValue(value), expires |-> t + ttl]
                   ELSE store[k]]

\* CacheManager.get at time t: found/value, and the store it leaves
\* (an expired entry is deleted by the read)
CacheFresh(store, key, t) == key \in DOMAIN store /\ t < store[key].expires
CacheGetValue(store, key, t) ==
    IF CacheFresh(store, key, t)
    THEN [found |-> TRUE,  value |-> DeserializeValue(store[key].value)]
    ELSE [found |-> FALSE, value |-> << >>]
CacheGetStore(store, key, t) ==
    IF key \in DOMAIN store /\ ~CacheFresh(store, key, t)
    THEN [k \in DOMAIN store \ { key } |-> store[k]]
    ELSE store

\* `if cached_result:` a list is true when it is not empty
CacheHit(got) == got.found /\ got.value # << >>

(***************************************************************************)
(* The backing store of CacheManager.  cache_backend is                    *)
(*   "absent"         the processor has no CacheManager                    *)
(*   "memory"         ping() raised redis.ConnectionError: _memory_cache   *)
(*   "redis"          ping() answered and the server answers               *)
(*   "redis_failing"  ping() answered and the server fails now             *)
(*   "unconstructed"  ping() raised something else (redis.TimeoutError,    *)
(*                    redis.ResponseError): CacheManager() raised, and so  *)
(*                    did AIProcessor()                                    *)
(* An entry of the server expires as one of _memory_cache does.            *)
(***************************************************************************)
\* the exceptions ping() may raise and what `except redis.ConnectionError` makes of them
PingOutcomes ==
    [none |-> "redis", ConnectionError |-> "memory",
     TimeoutError |-> "unconstructed", ResponseError |-> "unconstructed"]

\* CacheManager.__init__: the backing store after ping() ended with `ping`
ConstructedBackend(ping) == PingOutcomes[ping]

\* get(): `except Exception` returns None
ManagerGetValue(status, store, key, t) ==
    IF status = "redis_failing" THEN [found |-> FALSE, value |-> << >>]
                                ELSE CacheGetValue(store, key, t)
ManagerGetStore(status, store, key, t) ==
    IF status = "redis_failing" THEN store ELSE CacheGetStore(store, key, t)

\* set(): `except Exception` returns False
ManagerSet(status, store, key, value, ttl, t) ==
    IF status = "redis_failing" THEN store ELSE CacheSet(store, key, value, ttl, t)

(***************************************************************************)
(* State                                                                   *)
(***************************************************************************)
VARIABLES
    processor,             \* the class the process instantiated: "simple" or "cached"
    is_initialized,        \* ai_processor_simple.AIProcessor.is_initialized
    ollama_client,         \* AIProcessor.ollama_client: "None" or "client"
    nlp,                   \* ai_processor.AIProcessor.nlp: "None" or "loaded"
    confidence_threshold,  \* AIProcessor.confidence_threshold
    memory_cache,          \* CacheManager's store: key -> [value, expires]
    cache_backend,         \* what CacheManager() found and what its store does now
    now,                   \* time.time()
    backend,               \* what the model backend answers to the next generate()
    last,                  \* the latest call on the processor and what it did
    watch,                 \* the content whose repeated extraction is followed
    hist,                  \* the first completed extract of `watch` in the current TTL window
    calls,                 \* the extract calls in flight: created, run, awaited
    app,                   \* the process: the processors it has built and who holds them
    mgr,                   \* CacheManager: its latest call, and what the callers wrote
    btm,                   \* BackgroundTaskManager: its fields, its loop tasks, its stop() calls
    monitor,               \* BackgroundMonitor: its fields, its loop tasks, its stop calls
    approvals,             \* api/actions.py: the action items under review and the Wrike tasks
    action_items,          \* api/action_items.py: the rows of the action_items table
    auth_tokens,           \* models/auth_tokens.py: the rows of auth_tokens and the calls in flight
    oauth_states           \* api/auth.py: _oauth_states and the exchanges made

vars == << processor, is_initialized, ollama_client, nlp, confidence_threshold,
           memory_cache, cache_backend, now, backend, last, watch, hist, calls, app,
           mgr, btm, monitor, approvals, action_items, auth_tokens, oauth_states >>

\* the state of the services beside the processor
ServiceVars == << mgr, btm, monitor, approvals, action_items, auth_tokens, oauth_states >>

\* the services beside the CacheManager
BesidesMgr == << btm, monitor, approvals, action_items, auth_tokens, oauth_states >>

\* Settings.ai_confidence_threshold values the deployment may configure
ThresholdChoices == { 0, DefaultThreshold, 95 }

NoContent == << "<none>" >>

EmptyStore == [k \in {} |-> 0]

NoCall ==
    [op |-> "none", content |-> NoContent, source_type |-> "", source_id |-> "",
     outcome |-> "none", ret |-> << >>, raised |-> FALSE,
     model_calls |-> 0, cache_gets |-> 0, cache_sets |-> 0, cache |-> "", at |-> 0]

NoHist ==
    [seen |-> FALSE, outcome |-> "none", ret |-> << >>, source |-> << "", "" >>, at |-> 0,
     invocations |-> 0]

\* a slot of the event loop that holds no call
NoTask ==
    [status |-> "free", content |-> NoContent, source_type |-> "", source_id |-> "",
     prompt |-> NoPrompt, outcome |-> "none", ret |-> << >>, raised |-> FALSE,
     model_calls |-> 0]

CallIds == 1..MaxCalls

\* the process before its startup: no processor built, the module global of
\* api/ai_test.py and app.state both empty (0 names no instance)
NoApp ==
    [started |-> FALSE, instances |-> << >>, state_ai_processor |-> 0,
     ai_processor |-> 0, served |-> 0,
     request |-> [route |-> "none", used |-> 0, content |-> NoContent,
                  outcome |-> "none"]]

\* no call of the CacheManager yet, nothing written by its callers
NoManagerCall ==
    [op |-> "none", key |-> 0, found |-> FALSE, value |-> << >>, count |-> 0, at |-> 0]

\* BackgroundTaskManager.__init__: not running, no task; no loop task exists
\* and no stop() is suspended
NoManager ==
    [is_running |-> FALSE, tasks |-> << >>, loops |-> << >>, stops |-> {},
     stop_returned |-> FALSE]

\* BackgroundMonitor.__init__: not running, monitoring_task None (0), the
\* statistics at zero; no loop task exists and no stop_monitoring is suspended
NoMonitor ==
    [is_running |-> FALSE, monitoring_task |-> 0, loops |-> << >>,
     total_monitoring_cycles |-> 0, last_error |-> "None",
     stops |-> {}, overlapped |-> {}, stop_returned |-> FALSE,
     cycles_run |-> 0, cycles_raised |-> 0, last_cycle |-> "none"]

MaxReviewItems == 2

\* the rows of the table behind api/actions.py
ReviewIds == 1..MaxReviewItems

\* every row pending with no Wrike task id (status default "pending"), no
\* task in the tracker, no request served yet
NoApprovals ==
    [items    |-> [id \in ReviewIds |->
                     [status |-> "pending", wrike_task_id |-> "None", updated |-> FALSE]],
     tracker  |-> {},
     response |-> [op |-> "none", ids |-> << >>, results |-> << >>, code |-> 0]]

MaxRows == 2

\* the rows of the action_items table: created pending, medium, with
\* completed_at empty (0); utcnow() is 1 at the first request; no request yet
NoActionItems ==
    [rows    |-> [id \in 1..MaxRows |->
                    [status |-> "pending", priority |-> "medium", completed_at |-> 0]],
     utcnow  |-> 1,
     request |-> [op |-> "none", ids |-> {}, status |-> "unset", priority |-> "unset",
                  code |-> 0]]

\* TokenProvider
TokenProviders == { "microsoft", "wrike" }

\* an empty auth_tokens table at time 0: no call was made, no get_valid_token
\* is suspended at its refresh, no call has returned, no provider's token was
\* deactivated
NoTokens ==
    [rows |-> << >>, utcnow |-> 0, calls |-> 0, gets |-> {},
     returned |-> [op |-> "none", provider |-> "", row |-> 0, via |-> "", at |-> 0],
     deactivated |-> [p \in TokenProviders |-> FALSE]]

\* _oauth_states = {} at time 0: no state was issued or accepted, no exchange
\* was made
NoOAuthStates ==
    [states |-> << >>, utcnow |-> 0, issued |-> << >>, accepted |-> {},
     last |-> [op |-> "none", state |-> 0, at |-> 0, known |-> FALSE,
               seen_before |-> FALSE, passed |-> FALSE, requested |-> FALSE,
               scopes |-> << >>, status |-> 0]]

\* the services beside the processor, as constructed
ServiceInit ==
    /\ mgr = [call |-> NoManagerCall, written |-> EmptyStore]
    /\ btm = NoManager
    /\ monitor = NoMonitor
    /\ approvals = NoApprovals
    /\ action_items = NoActionItems
    /\ auth_tokens = NoTokens
    /\ oauth_states = NoOAuthStates

\* the state after AIProcessor() of either class
InitWith(answers, watched, thresholds, caches) ==
    /\ processor \in { "simple", "cached" }
    /\ is_initialized = FALSE
    /\ ollama_client = "None"
    /\ nlp = "None"
    /\ confidence_threshold \in
         IF processor = "simple" THEN thresholds ELSE { DefaultThreshold }
    /\ memory_cache = EmptyStore
    /\ cache_backend \in IF processor = "simple" THEN { "absent" } ELSE caches
    /\ now = 0
    /\ backend \in answers
    /\ last = NoCall
    /\ watch \in watched
    /\ hist = NoHist
    /\ calls = [i \in CallIds |-> NoTask]
    /\ app = NoApp
    /\ ServiceInit

(***************************************************************************)
(* What one extract_action_items call does                                 *)
(***************************************************************************)
Outcome(outcome, ret, raised, model_calls, cache_gets, cache_sets, store) ==
    [outcome |-> outcome, ret |-> ret, raised |-> raised, model_calls |-> model_calls,
     cache_gets |-> cache_gets, cache_sets |-> cache_sets, store |-> store]

\* an except clause that lists the parser's exceptions only
CaughtByExtract_ParserOnly(exc) == exc \in CaughtByParser

\* an except clause as narrow as the parser's
CaughtByExtract_Narrow(exc) == exc \in CaughtByParser \cup { "ConnectionError" }

\* `except Exception` of extract_action_items: every exception of the try block
CaughtByExtract(exc) == TRUE

\* the try block ended with exception exc
Excepted(exc, model_calls, cache_gets, store) ==
    IF CaughtByExtract(exc)
    THEN Outcome("error",  << >>, FALSE, model_calls, cache_gets, 0, store)
    ELSE Outcome("raised", << >>, TRUE,  model_calls, cache_gets, 0, store)

\* ai_processor_simple.py: AIProcessor.extract_action_items
SimpleExtractOutcome(initialized, threshold, store, content, source_type, source_id, response) ==
    IF ~initialized
      THEN Outcome("uninitialized", << >>, FALSE, 0, 0, 0, store)
    ELSE IF ContentIsBlank[content]                    \* not content.strip()
      THEN Outcome("empty_content", << >>, FALSE, 0, 0, 0, store)
    ELSE IF SimpleIrrelevant(content)
      THEN Outcome("irrelevant", << >>, FALSE, 0, 0, 0, store)
    ELSE IF response = BackendFailure
      THEN Excepted("ConnectionError", 1, 0, store)
    ELSE LET parsed == SimpleParse(response, source_type, source_id)
         IN  IF parsed.exc # "none"
               THEN Excepted(parsed.exc, 1, 0, store)
             ELSE IF FilterRaises(parsed.items)
               THEN Excepted("AttributeError", 1, 0, store)
               ELSE Outcome("validated", FilterByConfidence(parsed.items, threshold),
                            FALSE, 1, 0, 0, store)

\* a reject that stores the negative result
CachedReject_Stored(store, key, t) ==
    Outcome("irrelevant", << >>, FALSE, 0, 1, 1, CacheSet(store, key, << >>, ModelOutputTTL, t))

\* if relevance < 0.3: return [] -- after the lookup of key at time t left store
CachedReject(store, key, t) ==
    Outcome("irrelevant", << >>, FALSE, 0, 1, 0, store)

\* ai_processor.py: AIProcessor.extract_action_items at time t
CachedExtractOutcome(status, loaded, client, threshold, store, t, content, source_type, response) ==
    LET key    == ModelOutputKey(GenerateContentHash(content))
        got    == ManagerGetValue(status, store, key, t)
        store1 == ManagerGetStore(status, store, key, t)
    IN  IF CacheHit(got)
          THEN Outcome("cache_hit", got.value, FALSE, 0, 1, 0, store1)
        ELSE IF CachedIrrelevant(content, source_type)
          THEN CachedReject(store1, key, t)
        ELSE IF loaded # "loaded"                      \* self.nlp(text) with nlp None
          THEN Outcome("raised", << >>, TRUE, 0, 1, 0, store1)
        ELSE IF client # "client"                      \* None.generate, inside the try
          THEN Excepted("AttributeError", 0, 1, store1)
        ELSE IF response = BackendFailure
          THEN Excepted("ConnectionError", 1, 1, store1)
        ELSE LET parsed == CachedParse(response, threshold)
             IN  IF parsed.exc # "none"
                   THEN Excepted(parsed.exc, 1, 1, store1)
                 ELSE IF FilterRaises(parsed.items)   \* no confidence attribute
                   THEN Excepted("AttributeError", 1, 1, store1)
                   ELSE LET filtered == FilterByConfidence(parsed.items, threshold)
                        IN  Outcome("validated", filtered, FALSE, 1, 1, 1,
                                    ManagerSet(status, store1, key, filtered,
                                               ModelOutputTTL, t))

\* the window of `watch`: opened by its first completed extract, closed a TTL later
HistAfter(h, content, source, o, t) ==
    IF content # watch \/ o.raised THEN h
    ELSE IF ~h.seen \/ t >= h.at + ModelOutputTTL
      THEN [seen |-> TRUE, outcome |-> o.outcome, ret |-> o.ret, source |-> source, at |-> t,
            invocations |-> o.model_calls]
      ELSE [h EXCEPT !.invocations = @ + o.model_calls]

\* the followed count stays within its bound
Followable(content) ==
    ~(content = watch /\ hist.seen /\ hist.invocations >= MaxInvocations)

Observed(content, source_type, source_id, o) ==
    [op |-> "extract", content |-> content, source_type |-> source_type,
     source_id |-> source_id, outcome |-> o.outcome,
     ret |-> o.ret, raised |-> o.raised, model_calls |-> o.model_calls,
     cache_gets |-> o.cache_gets, cache_sets |-> o.cache_sets,
     cache |-> cache_backend, at |-> now]

(***************************************************************************)
(* Actions                                                                 *)
(***************************************************************************)
\* ai_processor_simple.py: AIProcessor.initialize; never raises
SimpleInitialize(reachable) ==
    /\ processor = "simple"
    /\ ollama_client' = "client"
    /\ is_initialized' = reachable
    /\ last' = [NoCall EXCEPT !.op = "initialize", !.at = now]
    /\ UNCHANGED << processor, cache_backend, calls, app, nlp, confidence_threshold, memory_cache, now, backend,
                    watch, hist >>
    /\ UNCHANGED ServiceVars

\* ai_processor.py: AIProcessor.initialize; raises when a step fails
CachedInitialize(failing_step) ==
    /\ processor = "cached"
    /\ cache_backend # "unconstructed"
    /\ ollama_client' = "client"
    /\ nlp' = IF failing_step \in { "none", "sentence_model" } THEN "loaded" ELSE nlp
    /\ last' = [NoCall EXCEPT !.op = "initialize", !.at = now,
                              !.raised = (failing_step # "none")]
    /\ UNCHANGED << processor, cache_backend, calls, app, is_initialized, confidence_threshold, memory_cache,
                    now, backend, watch, hist >>
    /\ UNCHANGED ServiceVars

SimpleExtract(content, source_type, source_id) ==
    /\ processor = "simple"
    /\ Followable(content)
    /\ LET o == SimpleExtractOutcome(is_initialized, confidence_threshold, memory_cache,
                                     content, source_type, source_id, backend)
       IN  /\ last' = Observed(content, source_type, source_id, o)
           /\ hist' = HistAfter(hist, content, << source_type, source_id >>, o, now)
           /\ memory_cache' = o.store
    /\ UNCHANGED << processor, cache_backend, calls, app, is_initialized, ollama_client, nlp, confidence_threshold,
                    now, backend, watch >>
    /\ UNCHANGED ServiceVars

CachedExtract(content, source_type, source_id) ==
    /\ processor = "cached"
    /\ Followable(content)
    /\ cache_backend # "unconstructed"
    /\ LET o == CachedExtractOutcome(cache_backend, nlp, ollama_client, confidence_threshold,
                                     memory_cache, now, content, source_type, backend)
       IN  /\ last' = Observed(content, source_type, source_id, o)
           /\ hist' = HistAfter(hist, content, << source_type, source_id >>, o, now)
           /\ memory_cache' = o.store
    /\ UNCHANGED << processor, cache_backend, calls, app, is_initialized, ollama_client, nlp, confidence_threshold,
                    now, backend, watch >>
    /\ UNCHANGED ServiceVars

\* the clock
Tick ==
    /\ now < MaxTicks * TickStep
    /\ now' = now + TickStep
    /\ UNCHANGED << processor, cache_backend, calls, app, is_initialized, ollama_client, nlp, confidence_threshold,
                    memory_cache, backend, last, watch, hist >>
    /\ UNCHANGED ServiceVars

\* the model backend is not deterministic: its next answer may be any answer
BackendAnswers(response) ==
    /\ backend # response
    /\ backend' = response
    /\ UNCHANGED << processor, cache_backend, calls, app, is_initialized, ollama_client, nlp, confidence_threshold,
                    memory_cache, now, last, watch, hist >>
    /\ UNCHANGED ServiceVars

InitializeSteps == { "none", "pull", "spacy", "sentence_model" }

(***************************************************************************)
(* Specification of the cache over time: two contents, few answers, all    *)
(* sources, a running clock                                                *)
(***************************************************************************)
CacheContents == { ShortTwoKeywords, LongTwoKeywords }
CacheResponses == { ItemsResponse(<< GoodEntry >>), NoJson, BackendFailure }

Init == InitWith(CacheResponses, CacheContents, { DefaultThreshold }, { "memory" })

Next ==
    \/ \E reachable \in BOOLEAN : SimpleInitialize(reachable)
    \/ \E step \in InitializeSteps : CachedInitialize(step)
    \/ \E c \in CacheContents, st \in SourceTypes, id \in SourceIds : SimpleExtract(c, st, id)
    \/ \E c \in CacheContents, st \in SourceTypes, id \in SourceIds : CachedExtract(c, st, id)
    \/ \E r \in CacheResponses : BackendAnswers(r)
    \/ Tick

Spec == Init /\ [][Next]_vars

(***************************************************************************)
(* Specification of the relevance gates: every content, two answers        *)
(***************************************************************************)
FilterResponses == { ItemsResponse(<< GoodEntry >>), NoJson }

InitFilter == InitWith(FilterResponses, { NoContent }, ThresholdChoices, { "memory" })

NextFilter ==
    \/ \E reachable \in BOOLEAN : SimpleInitialize(reachable)
    \/ \E step \in InitializeSteps : CachedInitialize(step)
    \/ \E c \in Contents, st \in SourceTypes : SimpleExtract(c, st, "id1")
    \/ \E c \in Contents, st \in SourceTypes : CachedExtract(c, st, "id1")
    \/ \E r \in FilterResponses : BackendAnswers(r)

SpecFilter == InitFilter /\ [][NextFilter]_vars

(***************************************************************************)
(* Specification of the parser: one content and, per behaviour, one answer *)
(* of the backend out of every answer within the bounds                    *)
(***************************************************************************)
Responses ==
    MalformedResponses \cup { BackendFailure }
      \cup { ItemsResponse(items) : items \in SeqsUpTo(Entries, MaxItems) }
      \cup { RawResponse(text, << AtDefaultEntry, GoodEntry >>) : text \in RawTexts }
      \cup { ItemsResponse(<< Prioritized(GoodEntry, p), AtDefaultEntry >>) : p \in Priorities }

InitParse == InitWith(Responses, { NoContent }, ThresholdChoices, { "memory" })

NextParse ==
    \/ \E reachable \in BOOLEAN : SimpleInitialize(reachable)
    \/ \E step \in InitializeSteps : CachedInitialize(step)
    \/ SimpleExtract(ShortTwoKeywords, "email", "id1")
    \/ CachedExtract(ShortTwoKeywords, "email", "id1")

SpecParse == InitParse /\ [][NextParse]_vars

(***************************************************************************)
(* Specification of the cache backend: every outcome of CacheManager(), a  *)
(* server that fails and recovers, one answer of the model per behaviour   *)
(***************************************************************************)
\* the Redis server starts or stops answering
CacheBackendFlips ==
    /\ cache_backend \in { "redis", "redis_failing" }
    /\ cache_backend' = IF cache_backend = "redis" THEN "redis_failing" ELSE "redis"
    /\ UNCHANGED << processor, calls, app, is_initialized, ollama_client, nlp,
                    confidence_threshold, memory_cache, now, backend, last, watch, hist >>
    /\ UNCHANGED ServiceVars

BackendContents == { ShortTwoKeywords, LongTwoKeywords }
BackendResponses == { ItemsResponse(<< GoodEntry >>), NoJson }

InitBackend ==
    InitWith(BackendResponses, { ShortTwoKeywords }, { DefaultThreshold },
             { ConstructedBackend(ping) : ping \in DOMAIN PingOutcomes })

NextBackend ==
    \/ \E reachable \in BOOLEAN : SimpleInitialize(reachable)
    \/ \E step \in InitializeSteps : CachedInitialize(step)
    \/ \E c \in BackendContents : SimpleExtract(c, "email", "id1")
    \/ \E c \in BackendContents : CachedExtract(c, "email", "id1")
    \/ CacheBackendFlips
    \/ Tick

SpecBackend == InitBackend /\ [][NextBackend]_vars

(***************************************************************************)
(* Concurrent calls.  extract_action_items is a coroutine without an await *)
(* in its body: once the event loop starts it, it runs to its return.      *)
(* Calls created together (concurrent requests, asyncio.gather) run one    *)
(* after the other, in any order.                                          *)
(***************************************************************************)
\* the model answers the prompt it is given: the task of every candidate of
\* its answer is the content the prompt embeds
AnswerTo(style, prompt) ==
    IF style.shape = "items"
    THEN ItemsResponse([k \in DOMAIN style.items |->
                          [style.items[k] EXCEPT !.task = JStr(prompt.content)]])
    ELSE style

\* the call got as far as its prompt
PromptBuilt(o) == o.model_calls = 1 \/ o.outcome = "error"

\* a request creates the coroutine extract_action_items(content, source_type, source_id)
Submit(i, content, source_type, source_id) ==
    /\ cache_backend # "unconstructed"
    /\ calls[i].status = "free"
    /\ calls' = [calls EXCEPT ![i] = [NoTask EXCEPT !.status = "pending",
                                                    !.content = content,
                                                    !.source_type = source_type,
                                                    !.source_id = source_id]]
    /\ UNCHANGED << processor, is_initialized, ollama_client, nlp, confidence_threshold,
                    memory_cache, cache_backend, now, backend, last, watch, hist, app >>
    /\ UNCHANGED ServiceVars

\* the event loop runs call i from its first line to its return; what the
\* call did is kept in its slot
RunCall(i) ==
    /\ calls[i].status = "pending"
    /\ LET c      == calls[i].content
           st     == calls[i].source_type
           id     == calls[i].source_id
           prompt == IF processor = "simple"
                       THEN SimpleBuildExtractionPrompt(Text(c), st)
                       ELSE CachedBuildExtractionPrompt(Text(c), st, ExtractEntities(Text(c)))
           answer == AnswerTo(backend, prompt)
           o      == IF processor = "simple"
                       THEN SimpleExtractOutcome(is_initialized, confidence_threshold,
                                                 memory_cache, c, st, id, answer)
                       ELSE CachedExtractOutcome(cache_backend, nlp, ollama_client,
                                                 confidence_threshold, memory_cache, now,
                                                 c, st, answer)
       IN  /\ calls' = [calls EXCEPT ![i] =
                          [@ EXCEPT !.status = "done",
                                    !.prompt = IF PromptBuilt(o) THEN prompt ELSE NoPrompt,
                                    !.outcome = o.outcome,
                                    !.ret = o.ret,
                                    !.raised = o.raised,
                                    !.model_calls = o.model_calls]]
           /\ memory_cache' = o.store
    /\ UNCHANGED << processor, is_initialized, ollama_client, nlp, confidence_threshold,
                    cache_backend, now, backend, last, watch, hist, app >>
    /\ UNCHANGED ServiceVars

\* the awaiter of call i takes its result
Collect(i) ==
    /\ calls[i].status = "done"
    /\ calls' = [calls EXCEPT ![i] = NoTask]
    /\ UNCHANGED << processor, is_initialized, ollama_client, nlp, confidence_threshold,
                    memory_cache, cache_backend, now, backend, last, watch, hist, app >>
    /\ UNCHANGED ServiceVars

CallContents == { ShortTwoKeywords } \cup PromptContents
CallResponses == { ItemsResponse(<< GoodEntry >>), NoJson }

InitCalls == InitWith(CallResponses, { NoContent }, { DefaultThreshold }, { "memory" })

NextCalls ==
    \/ \E reachable \in BOOLEAN : SimpleInitialize(reachable)
    \/ \E step \in InitializeSteps : CachedInitialize(step)
    \/ \E i \in CallIds, c \in CallContents : Submit(i, c, "email", "id1")
    \/ \E i \in CallIds : RunCall(i)
    \/ \E i \in CallIds : Collect(i)

SpecCalls == InitCalls /\ [][NextCalls]_vars

(***************************************************************************)
(* The process.  main.py builds a processor at startup and hands it to the *)
(* email processor; api/ai_test.py keeps a module global of its own, built *)
(* by the first request of its routes.  Both initialize() and              *)
(* extract_action_items() run to their return once awaited.                *)
(***************************************************************************)
ProcessorVars ==
    << processor, is_initialized, ollama_client, nlp, confidence_threshold,
       memory_cache, cache_backend, now, backend, last, watch, hist, calls >>

\* AIProcessor() followed by await initialize(): the new instance
Constructed(origin, reachable) == [origin |-> origin, is_initialized |-> reachable]

\* main.py: lifespan, up to its yield
Lifespan(reachable) ==
    /\ ~app.started
    /\ app' = [app EXCEPT !.started = TRUE,
                          !.instances = Append(@, Constructed("lifespan", reachable)),
                          !.state_ai_processor = Len(app.instances) + 1]
    /\ UNCHANGED ProcessorVars
    /\ UNCHANGED ServiceVars

\* api/ai_test.py: get_ai_processor, as the instances and the global it leaves
GetAiProcessor(a, reachable) ==
    IF a.ai_processor = 0
    THEN [a EXCEPT !.instances = Append(@, Constructed("api", reachable)),
                   !.ai_processor = Len(a.instances) + 1]
    ELSE a

\* what a request gets from the instance it uses
Served(instance, content, source_type, source_id) ==
    IF ~instance.is_initialized THEN "unavailable"
    ELSE SimpleExtractOutcome(TRUE, confidence_threshold, memory_cache, content,
                              source_type, source_id, backend).outcome

\* api/ai_test.py: POST /test-extraction
TestExtraction(reachable, content, source_id) ==
    /\ app.started
    /\ app.served < MaxRequests
    /\ LET a    == GetAiProcessor(app, reachable)
           used == a.ai_processor
       IN  app' = [a EXCEPT !.served = @ + 1,
                            !.request = [route |-> "test-extraction", used |-> used,
                                         content |-> content,
                                         outcome |-> Served(a.instances[used], content,
                                                            "email", source_id)]]
    /\ UNCHANGED ProcessorVars
    /\ UNCHANGED ServiceVars

\* api/ai_test.py: GET /status
AiStatus(reachable) ==
    /\ app.started
    /\ app.served < MaxRequests
    /\ LET a == GetAiProcessor(app, reachable)
       IN  app' = [a EXCEPT !.served = @ + 1,
                            !.request = [route |-> "status", used |-> a.ai_processor,
                                         content |-> NoContent,
                                         outcome |-> IF a.instances[a.ai_processor].is_initialized
                                                       THEN "initialized"
                                                       ELSE "unavailable"]]
    /\ UNCHANGED ProcessorVars
    /\ UNCHANGED ServiceVars

\* services/email_processor.py: process_emails_for_action_items, one email
ProcessEmail(content, source_id) ==
    /\ app.started
    /\ app.served < MaxRequests
    /\ LET used == app.state_ai_processor
       IN  app' = [app EXCEPT !.served = @ + 1,
                              !.request = [route |-> "process-emails", used |-> used,
                                           content |-> content,
                                           outcome |-> Served(app.instances[used], content,
                                                              "email", source_id)]]
    /\ UNCHANGED ProcessorVars
    /\ UNCHANGED ServiceVars

AppContents == { ShortTwoKeywords, SpacesContent, LongPlain }

InitApp ==
    /\ InitWith(CallResponses, { NoContent }, { DefaultThreshold }, { "memory" })
    /\ processor = "simple"

NextApp ==
    \/ \E reachable \in BOOLEAN : Lifespan(reachable)
    \/ \E reachable \in BOOLEAN, c \in AppContents, id \in SourceIds :
          TestExtraction(reachable, c, id)
    \/ \E reachable \in BOOLEAN : AiStatus(reachable)
    \/ \E c \in AppContents, id \in SourceIds : ProcessEmail(c, id)

SpecApp == InitApp /\ [][NextApp]_vars

(***************************************************************************)
(* Properties                                                              *)
(***************************************************************************)
Extracted == last.op = "extract"

\* the processor went through a successful initialize()
Initialized ==
    IF processor = "simple" THEN is_initialized
                            ELSE nlp = "loaded" /\ ollama_client = "client"

\* the number of action keywords of the running processor found in the content
OwnKeywordCount(content) ==
    IF processor = "simple" THEN KeywordCount(content, ActionKeywords)
                            ELSE KeywordCount(content, CachedActionKeywords)

\* C1: every element of the list extract returns, whether it was parsed from the
\* model's answer or read from the cache, has a confidence at or above the
\* processor's confidence threshold.
C1_ThresholdInvariant ==
    Extracted =>
        \A i \in DOMAIN last.ret :
            /\ ~last.ret[i].confidence.nan
            /\ last.ret[i].confidence.v >= confidence_threshold

\* the answer held a candidate below the threshold and one at it, and only the
\* one at the threshold was returned
C1_Witness ==
    /\ Extracted
    /\ last.outcome = "validated"
    /\ backend = ItemsResponse(<< NoConfEntry, AtDefaultEntry >>)
    /\ confidence_threshold = DefaultThreshold
    /\ Len(last.ret) = 1
    /\ last.ret[1].confidence.v = confidence_threshold

\* C2: no element of the list extract returns has a task that is empty or only
\* whitespace: a candidate whose task is missing, empty or only whitespace is
\* discarded.
C2_NonEmptyTask ==
    Extracted => \A i \in DOMAIN last.ret : StripText(last.ret[i].task) # ""

\* the model emitted a whitespace-only task, a missing task and a valid candidate,
\* and only the valid candidate was returned, its task trimmed
C2_Witness ==
    /\ Extracted
    /\ last.outcome = "validated"
    /\ backend \in { ItemsResponse(<< WhitespaceEntry, AtDefaultEntry >>),
                     ItemsResponse(<< NoTaskEntry, AtDefaultEntry >>) }
    /\ Len(last.ret) = 1
    /\ last.ret[1].task = "Send report"

\* C3: every element of the list extract returns has 0.0 <= confidence <= 1.0,
\* whatever confidence the model emitted (negative, above 1, NaN, missing).
C3_ConfidenceRange ==
    Extracted =>
        \A i \in DOMAIN last.ret :
            /\ ~last.ret[i].confidence.nan
            /\ 0 <= last.ret[i].confidence.v
            /\ last.ret[i].confidence.v <= 100

\* the model emitted a confidence of 1.2 next to a valid candidate, and only the
\* valid candidate was returned
C3_Witness ==
    /\ Extracted
    /\ processor = "simple"
    /\ backend = ItemsResponse(<< OverEntry, GoodEntry >>)
    /\ last.outcome = "validated"
    /\ Len(last.ret) = 1
    /\ last.ret[1].confidence.v = 90

\* C4: when the model was called and its answer holds no JSON, invalid JSON, an
\* object without the action_items array, or an action_items that is no array of
\* objects, extract returns the empty list and raises nothing.
C4_MalformedOutput ==
    (Extracted /\ last.model_calls = 1 /\ backend \in MalformedResponses)
        => (last.ret = << >> /\ ~last.raised)

\* the model answered with "action_items": null and extract returned []
C4_Witness ==
    /\ Extracted
    /\ last.model_calls = 1
    /\ backend = NullField
    /\ last.ret = << >>
    /\ ~last.raised

\* C5: for empty or whitespace-only content extract returns the empty list
\* without a cache lookup, a cache write or a model call.
C5_EmptyContentShortCircuit ==
    (Extracted /\ StripContent(last.content) = << >>)
        => /\ last.ret = << >>
           /\ last.cache_gets = 0
           /\ last.cache_sets = 0
           /\ last.model_calls = 0

\* the caching processor looked whitespace-only content up in the cache
C5_BlankContentLookedUp ==
    /\ Extracted
    /\ processor = "cached"
    /\ last.content = SpacesContent
    /\ last.cache_gets = 1

\* C6: for content of more than 50 words holding none of the action keywords,
\* extract returns the empty list and the model backend is not invoked.
C6_IrrelevantShortCircuit ==
    (Extracted /\ WordCount(last.content) > WordLimit /\ OwnKeywordCount(last.content) = 0)
        => (last.ret = << >> /\ last.model_calls = 0)

\* an initialized processor was given 51 plain words and did not call the model
C6_Witness ==
    /\ Extracted
    /\ Initialized
    /\ last.content = LongPlain
    /\ last.outcome = "irrelevant"
    /\ last.model_calls = 0

\* C7: for non-empty content of at most 50 words, an initialized processor with
\* no cache entry for it calls the model, whatever the number of keywords and
\* whatever the source type.
C7_ShortContentPasses ==
    (/\ Extracted
     /\ Initialized
     /\ StripContent(last.content) # << >>
     /\ WordCount(last.content) <= WordLimit
     /\ last.outcome # "cache_hit")
        => last.model_calls = 1

\* the initialized caching processor rejected two plain words without a model call
C7_ShortContentRejected ==
    /\ Extracted
    /\ Initialized
    /\ processor = "cached"
    /\ last.content = ShortPlain
    /\ last.outcome = "irrelevant"
    /\ last.model_calls = 0

\* C8: every extract of a content made within the cache TTL of a first extract
\* of it that returned a validated list returns the very same list, even when
\* the model answers differently.
C8_Idempotence ==
    (/\ Extracted
     /\ ~last.raised
     /\ last.content = watch
     /\ hist.seen
     /\ hist.outcome = "validated"
     /\ last.at < hist.at + ModelOutputTTL)
        => last.ret = hist.ret

\* within the TTL of a first extract that returned one item, a later extract of
\* the same content called the model again and returned the empty list
C8_LaterListDiffers ==
    /\ Extracted
    /\ last.content = watch
    /\ hist.seen
    /\ hist.outcome = "validated"
    /\ Len(hist.ret) = 1
    /\ last.at < hist.at + ModelOutputTTL
    /\ last.model_calls = 1
    /\ last.ret = << >>

C10_SourceOfCall ==
    Extracted =>
        \A i \in DOMAIN last.ret :
            last.ret[i].source = last.source_type \o ":" \o last.source_id

\* after an extract of the same content from email id1, an extract from
\* meeting_transcript id2 returned an item with the source of the second call
C10_Witness ==
    /\ Extracted
    /\ last.content = watch
    /\ hist.seen
    /\ hist.source = << "email", "id1" >>
    /\ Len(hist.ret) = 1
    /\ last.at > hist.at
    /\ last.source_type = "meeting_transcript"
    /\ last.source_id = "id2"
    /\ Len(last.ret) = 1
    /\ last.ret[1].source = "meeting_transcript:id2"

\* C11: initialize never raises, a failed initialize leaves the processor
\* uninitialized, and every extract on an uninitialized processor returns the
\* empty list without raising and without a model call.
C11_InitFailureContained ==
    /\ (last.op = "initialize" => ~last.raised)
    /\ (Extracted /\ ~Initialized)
         => (last.ret = << >> /\ ~last.raised /\ last.model_calls = 0)

\* after an initialize of the caching processor that failed before spaCy was
\* loaded, an extract raised out of the call
C11_ExtractRaised ==
    /\ Extracted
    /\ processor = "cached"
    /\ ollama_client = "client"
    /\ nlp = "None"
    /\ last.raised

\* C12: when the call of the model backend fails, extract returns the empty
\* list, raises nothing and has invoked the backend exactly once.
C12_BackendFailureContained ==
    (Extracted /\ last.model_calls > 0 /\ backend = BackendFailure)
        => (last.ret = << >> /\ ~last.raised /\ last.model_calls = 1)

\* generate() failed in an extract that reached the model call, and the call
\* ended in the except clause with the empty list
C12_Witness ==
    /\ Extracted
    /\ backend = BackendFailure
    /\ last.model_calls = 1
    /\ last.outcome = "error"
    /\ last.ret = << >>
    /\ ~last.raised

\* C13: an extract that the relevance filter rejects writes nothing to the
\* cache: the step leaves the store as it was, and the store holds no entry
\* under the hash of the rejected content, so that a later extract of it is a
\* miss and runs the filter again.
C13_RejectNotCached ==
    /\ [](Extracted /\ last.outcome = "irrelevant"
            => ModelOutputKey(GenerateContentHash(last.content)) \notin DOMAIN memory_cache)
    /\ [][(last'.op = "extract" /\ last'.outcome = "irrelevant")
            => memory_cache' = memory_cache]_vars

\* the caching processor, holding the result of another content, rejected a
\* content and holds no entry for it
C13_Witness ==
    /\ Extracted
    /\ processor = "cached"
    /\ last.outcome = "irrelevant"
    /\ last.cache_sets = 0
    /\ memory_cache # EmptyStore
    /\ ModelOutputKey(GenerateContentHash(last.content)) \notin DOMAIN memory_cache

\* the list the parser validates from the backend's answer, at or above the threshold
ValidatedFromAnswer ==
    FilterByConfidence(CachedParse(backend, confidence_threshold).items, confidence_threshold)

\* C14: a cache backend that is unavailable when the cache manager is
\* constructed leaves a usable processor, and an extract of relevant content
\* whose cache operations fail raises nothing, calls the model and returns the
\* list validated from the model's answer.
C14_CacheFailOpen ==
    /\ cache_backend # "unconstructed"
    /\ (Extracted /\ processor = "cached" /\ nlp = "loaded" /\ last.cache = "redis_failing")
         => /\ ~last.raised
            /\ last.model_calls = 1
            /\ last.ret = ValidatedFromAnswer

\* with the cache server failing, the model answered one valid item at 0.9 and
\* extract returned the empty list
C14_ValidatedListLost ==
    /\ Extracted
    /\ processor = "cached"
    /\ nlp = "loaded"
    /\ last.cache = "redis_failing"
    /\ last.model_calls = 1
    /\ Len(ValidatedFromAnswer) = 1
    /\ last.ret = << >>

\* the calls that have returned and not been collected yet
DoneCalls == { i \in CallIds : calls[i].status = "done" }

\* the text the call's own prompt embeds
OwnEmbedded(i) ==
    IF processor = "simple" THEN SimpleEmbedded(Text(calls[i].content))
                            ELSE CachedEmbedded(Text(calls[i].content))

\* C15: whatever the order in which the event loop runs the calls in flight,
\* every item a call returns was validated from the answer to the prompt of
\* that call's own content and carries that call's own source; a call makes
\* one model call at most, and calls of the same content that both called the
\* model return the same list: a second model call is all a double miss costs.
C15_OwnItemsOnly ==
    /\ \A i \in DoneCalls :
          /\ calls[i].model_calls <= 1
          /\ \A k \in DOMAIN calls[i].ret :
                /\ calls[i].model_calls = 1
                /\ calls[i].ret[k].task = StripText(OwnEmbedded(i))
                /\ calls[i].ret[k].source
                      = FormatSource(calls[i].source_type, calls[i].source_id)
    /\ \A i, j \in DoneCalls :
          /\ calls[i].content = calls[j].content
          /\ calls[i].model_calls = 1 /\ calls[j].model_calls = 1
          => calls[i].ret = calls[j].ret

\* two calls in flight of different contents have both returned items
C15_TwoContentsReturned ==
    \E i, j \in DoneCalls :
        /\ Prefix(Text(calls[i].content), 3) # Prefix(Text(calls[j].content), 3)
        /\ calls[i].ret # << >> /\ calls[j].ret # << >>

\* the instance a request used had returned from initialize()
UsedAfterInitialize ==
    app.request.used # 0 => app.request.used \in DOMAIN app.instances

\* C16: the process builds and initializes one processor at most, whatever the
\* order of its startup and its requests, and the processor a request uses has
\* been built and has returned from initialize().
C16_SingleProcessor ==
    /\ Len(app.instances) <= 1
    /\ UsedAfterInitialize

\* the startup has built one processor and a request of api/ai_test.py a second
C16_SecondProcessor ==
    /\ Len(app.instances) = 2
    /\ app.state_ai_processor # app.ai_processor
    /\ app.request.route = "test-extraction"
    /\ app.request.used = app.ai_processor

\* the entry is an object with a task the parser accepts, and its confidence
\* cannot be coerced by float() or lies outside [0.0, 1.0]
BadConfidence(e) ==
    /\ e.task # NotAnObject /\ Truthy(e.task) /\ e.task.t = "str"
    /\ Get(e.assignee, JStr("")).t = "str"
    /\ LET conf == Float(Get(e.confidence, JNum(0)))
       IN  conf.exc # "none" \/ ~InUnitRange(conf)

\* what the last call returns for an answer that holds entry e alone
ReturnedAlone(e) ==
    SimpleExtractOutcome(TRUE, confidence_threshold, memory_cache, last.content,
                         last.source_type, last.source_id, ItemsResponse(<< e >>)).ret

\* C17: when an answer holds an entry whose confidence cannot be coerced to a
\* float or lies outside [0.0, 1.0], every other entry of the answer that is
\* valid and at or above the threshold is still returned, before or after it.
C17_OnlyBadEntryDiscarded ==
    ( /\ Extracted /\ processor = "simple" /\ last.model_calls = 1
      /\ backend.shape = "items"
      /\ \E k \in DOMAIN backend.items : BadConfidence(backend.items[k]) )
    => \A k \in DOMAIN backend.items :
          ReturnedAlone(backend.items[k]) # << >>
            => \E j \in DOMAIN last.ret : << last.ret[j] >> = ReturnedAlone(backend.items[k])

\* the answer held a valid candidate followed by one whose confidence is the
\* text "high", and extract returned nothing
C17_ValidEntryLost ==
    /\ Extracted /\ processor = "simple" /\ last.model_calls = 1
    /\ backend = ItemsResponse(<< GoodEntry, TextConfEntry >>)
    /\ confidence_threshold = DefaultThreshold
    /\ ReturnedAlone(GoodEntry) # << >>
    /\ last.ret = << >>

\* the text holds one balanced JSON object, and around it prose and code fences
\* before and any text, braces included, after
OneObjectRecoverable(text) ==
    \E k \in DOMAIN text :
        /\ text[k] = ObjectText
        /\ \A j \in 1..(k - 1) : text[j] \notin { "{", "}", ObjectText }
        /\ \A j \in (k + 1)..Len(text) : text[j] # ObjectText

\* C18: an answer that holds one balanced JSON object between leading prose or
\* code fences and trailing text, braces in the trailing text included, is
\* parsed by both parsers to the items of the bare object, and extract returns
\* what it returns for the bare object.
C18_BalancedObjectRecovered ==
    ( /\ Extracted /\ last.model_calls = 1
      /\ backend.shape = "raw"
      /\ OneObjectRecoverable(backend.text) )
    => LET bare == ItemsResponse(backend.items)
       IN  /\ SimpleParse(backend, last.source_type, last.source_id)
                = SimpleParse(bare, last.source_type, last.source_id)
           /\ CachedParse(backend, confidence_threshold)
                = CachedParse(bare, confidence_threshold)
           /\ processor = "simple" =>
                last.ret = SimpleExtractOutcome(TRUE, confidence_threshold, memory_cache,
                                                last.content, last.source_type,
                                                last.source_id, bare).ret

\* the answer held the object followed by a format hint in braces, and extract
\* returned nothing where the bare object yields items
C18_TrailingBraceLosesObject ==
    /\ Extracted /\ last.model_calls = 1 /\ processor = "simple"
    /\ backend.shape = "raw"
    /\ backend.text = << ObjectText, " Format: ", "{", "task", "}" >>
    /\ last.ret = << >>
    /\ SimpleExtractOutcome(TRUE, confidence_threshold, memory_cache, last.content,
                            last.source_type, last.source_id,
                            ItemsResponse(backend.items)).ret # << >>

\* ActionItemPriority of models/action_items.py
RecognizedPriorities == { "low", "medium", "high", "urgent" }

\* the value of "priority" is absent, null or none of the recognized texts
Unrecognized(v) == ~(v.t = "str" /\ v.s \in RecognizedPriorities)

\* C19: every item extract returns has a priority among low, medium, high and
\* urgent, and in an answer whose entries all parse, a candidate whose priority
\* is absent, null or unrecognized, and which is otherwise returned, is returned
\* with priority medium.
C19_PriorityRecognized ==
    Extracted =>
        /\ \A i \in DOMAIN last.ret : last.ret[i].priority \in RecognizedPriorities
        /\ ( /\ processor = "simple" /\ last.model_calls = 1 /\ backend.shape = "items"
             /\ \A m \in DOMAIN backend.items :
                   SimpleParseEntry(backend.items[m], last.source_type,
                                    last.source_id).kind # "raise" )
             => \A k \in DOMAIN backend.items :
                  LET e      == backend.items[k]
                      medium == ReturnedAlone(Prioritized(e, JStr("medium")))
                  IN  ( Unrecognized(e.priority) /\ medium # << >> )
                      => \E j \in DOMAIN last.ret : << last.ret[j] >> = medium

\* the model gave a candidate the priority "critical" and extract returned it
\* with that priority
C19_UnrecognizedPriorityReturned ==
    /\ Extracted /\ processor = "simple" /\ last.model_calls = 1
    /\ backend = ItemsResponse(<< Prioritized(GoodEntry, JStr("critical")), AtDefaultEntry >>)
    /\ Len(last.ret) = 2
    /\ last.ret[1].priority = "critical"
    /\ last.ret[2].priority = "medium"

\* the calls that have built their prompt
PromptCalls == { i \in DoneCalls : calls[i].prompt # NoPrompt }

\* the prompt of the running processor for an empty content
EmptyPrompt(source_type) ==
    IF processor = "simple"
    THEN SimpleBuildExtractionPrompt("", source_type)
    ELSE CachedBuildExtractionPrompt("", source_type, ExtractEntities(""))

\* C20: the prompt embeds the first 1500 characters of the content at most,
\* followed by the marker "..." exactly when the content is longer than that, and
\* the whole content otherwise; for one source type the prompt is never more
\* than 1500 characters and the marker longer than the prompt of an empty
\* content; calls of the same content and source type build the same prompt.
C20_PromptBounded ==
    /\ \A i \in PromptCalls :
          LET text   == Text(calls[i].content)
              prompt == calls[i].prompt
          IN  /\ Len(text) > MaxContentLength
                   => prompt.content = Prefix(text, MaxContentLength) \o "..."
              /\ Len(text) <= MaxContentLength => prompt.content = text
              /\ Len(PromptText(prompt))
                   <= Len(PromptText(EmptyPrompt(calls[i].source_type)))
                        + MaxContentLength + Len("...")
    /\ \A i, j \in PromptCalls :
          ( calls[i].content = calls[j].content
            /\ calls[i].source_type = calls[j].source_type )
          => PromptText(calls[i].prompt) = PromptText(calls[j].prompt)

\* a call of the cache-owning processor built its prompt for a content of 2001
\* characters and embedded 2000 of them, without a marker
C20_LongContentEmbedded ==
    \E i \in PromptCalls :
        /\ processor = "cached"
        /\ Len(Text(calls[i].content)) = CachedMaxContentLength + 1
        /\ Len(calls[i].prompt.content) = CachedMaxContentLength
        /\ calls[i].prompt.content = Prefix(Text(calls[i].content), CachedMaxContentLength)

(***************************************************************************)
(* utils/cache.py: the calls of CacheManager on its in-process store       *)
(* (redis_client None).  mgr.call is the latest call with what it          *)
(* returned; mgr.written is what the callers wrote: for every key the      *)
(* value, time and ttl of its latest set(), removed by delete().           *)
(***************************************************************************)
MaxKeys == 2

\* the keys the callers use
StoreKey(i) == [prefix |-> "key", hash |-> i]
StoreKeys == { StoreKey(i) : i \in 1..MaxKeys }

\* JSON values: lists of strings
Txt(s) == [cls |-> "str", text |-> s]
StoreValues == { << Txt("a") >>, << Txt("b") >> }

\* ttl arguments: half the default and the default (ttl: int = 3600)
StoreTTLs == { TickStep, ModelOutputTTL }

ManagerCall(op, key, found, value, count) ==
    [op |-> op, key |-> key, found |-> found, value |-> value, count |-> count, at |-> now]

Without(f, key) == [k \in DOMAIN f \ { key } |-> f[k]]

\* CacheManager.set on _memory_cache; returns True
StoreSet(key, value, ttl) ==
    /\ cache_backend = "memory"
    /\ memory_cache' = CacheSet(memory_cache, key, value, ttl, now)
    /\ mgr' = [call    |-> ManagerCall("set", key, TRUE, value, 0),
               written |-> [k \in DOMAIN mgr.written \cup { key } |->
                              IF k = key THEN [value |-> value, at |-> now, ttl |-> ttl]
                                         ELSE mgr.written[k]]]
    /\ UNCHANGED << processor, is_initialized, ollama_client, nlp, confidence_threshold,
                    cache_backend, now, backend, last, watch, hist, calls, app >>
    /\ UNCHANGED BesidesMgr

\* CacheManager.get on _memory_cache: the value before its expiry, else None
\* (and the expired entry deleted)
StoreGet(key) ==
    /\ cache_backend = "memory"
    /\ LET got == CacheGetValue(memory_cache, key, now)
       IN  mgr' = [mgr EXCEPT !.call = ManagerCall("get", key, got.found, got.value, 0)]
    /\ memory_cache' = CacheGetStore(memory_cache, key, now)
    /\ UNCHANGED << processor, is_initialized, ollama_client, nlp, confidence_threshold,
                    cache_backend, now, backend, last, watch, hist, calls, app >>
    /\ UNCHANGED BesidesMgr

\* CacheManager.exists on _memory_cache: True before the expiry, else False
\* (and the expired entry deleted)
StoreExists(key) ==
    /\ cache_backend = "memory"
    /\ mgr' = [mgr EXCEPT !.call =
                 ManagerCall("exists", key, CacheFresh(memory_cache, key, now), << >>, 0)]
    /\ memory_cache' = CacheGetStore(memory_cache, key, now)
    /\ UNCHANGED << processor, is_initialized, ollama_client, nlp, confidence_threshold,
                    cache_backend, now, backend, last, watch, hist, calls, app >>
    /\ UNCHANGED BesidesMgr

\* CacheManager.delete on _memory_cache: True when the key was in the map
StoreDelete(key) ==
    /\ cache_backend = "memory"
    /\ mgr' = [call    |-> ManagerCall("delete", key, key \in DOMAIN memory_cache, << >>, 0),
               written |-> Without(mgr.written, key)]
    /\ memory_cache' = Without(memory_cache, key)
    /\ UNCHANGED << processor, is_initialized, ollama_client, nlp, confidence_threshold,
                    cache_backend, now, backend, last, watch, hist, calls, app >>
    /\ UNCHANGED BesidesMgr

\* a CacheManager whose ping() raised redis.ConnectionError, held by the
\* processor that owns a cache
InitStore ==
    InitWith({ NoJson }, { NoContent }, { DefaultThreshold }, { "memory" })
    /\ processor = "cached"

NextStore ==
    \/ \E key \in StoreKeys, value \in StoreValues, ttl \in StoreTTLs : StoreSet(key, value, ttl)
    \/ \E key \in StoreKeys : StoreGet(key)
    \/ \E key \in StoreKeys : StoreExists(key)
    \/ \E key \in StoreKeys : StoreDelete(key)
    \/ Tick

SpecStore == InitStore /\ [][NextStore]_vars

\* get(key) returns the value of the latest set(key, value, ttl) at every time
\* before its t + ttl, and None from t + ttl on and after delete(key)
FallbackExpiry ==
    mgr.call.op = "get" =>
        LET key == mgr.call.key
        IN  IF key \in DOMAIN mgr.written
               /\ mgr.call.at < mgr.written[key].at + mgr.written[key].ttl
            THEN mgr.call.found /\ mgr.call.value = mgr.written[key].value
            ELSE ~mgr.call.found

\* C21: after set(key, value, ttl) at time t, get(key) returns the stored
\* value at every time before t + ttl and None from t + ttl on, until the key
\* is set again; and the fallback map stays bounded: however many distinct
\* keys the callers set, there is a size the map does not reach
C21_ExpiryAndBounded ==
    /\ FallbackExpiry
    /\ Cardinality(DOMAIN memory_cache) < MaxKeys

\* every key ever set is in the map, every entry of it expired, and the
\* latest call returned: nothing but a call on an entry's own key removes it
C21_ExpiredEntriesKept ==
    /\ DOMAIN memory_cache = StoreKeys
    /\ \A key \in StoreKeys : memory_cache[key].expires <= now
    /\ mgr.call.op \in { "set", "get", "exists", "delete" }

(***************************************************************************)
(* utils/cache.py: CacheManager.check_rate_limit.  mgr.written counts the  *)
(* calls made for every (api_name, identifier, window_start).              *)
(***************************************************************************)
MaxRateCalls == 4

\* api names and identifiers: any str
ApiNames    == { "a", "a:b" }
Identifiers == { "b:c", "c" }
RateLimits  == { 1, 2 }
RateWindow  == 2 * TickStep

\* current_time - (current_time % window)
WindowStart(t, window) == t - (t % window)

\* f"rate_limit:{api_name}:{identifier}:{window_start}"
RateLimitKey(api_name, identifier, window_start) ==
    "rate_limit:" \o api_name \o ":" \o identifier \o ":" \o ToString(window_start)

\* the counter of `key` after one more call at time t: a new or expired entry
\* starts at 1, a live one is incremented (redis: incr, then expire)
Counted(store, key, window, t) ==
    [k \in DOMAIN store \cup { key } |->
        IF k # key THEN store[k]
        ELSE IF CacheFresh(store, key, t)
          THEN [value   |-> store[key].value + 1,
                expires |-> IF cache_backend = "redis" THEN t + window
                                                       ELSE store[key].expires]
          ELSE [value |-> 1, expires |-> t + window]]

CallsMade(api_name, identifier, window_start) ==
    IF << api_name, identifier, window_start >> \in DOMAIN mgr.written
    THEN mgr.written[<< api_name, identifier, window_start >>]
    ELSE 0

RECURSIVE SumOver(_, _)
SumOver(f, S) ==
    IF S = {} THEN 0
    ELSE LET x == CHOOSE y \in S : TRUE IN f[x] + SumOver(f, S \ { x })

\* the calls made so far, of every caller
TotalCalls == SumOver(mgr.written, DOMAIN mgr.written)

\* check_rate_limit(api_name, identifier, limit, window): (allowed, count);
\* an exception of the store is caught and answered (True, 0)
CheckRateLimit(api_name, identifier, limit, window) ==
    LET window_start == WindowStart(now, window)
        key    == RateLimitKey(api_name, identifier, window_start)
        who    == << api_name, identifier, window_start >>
        made   == CallsMade(api_name, identifier, window_start) + 1
        failed == cache_backend = "redis_failing"
        store  == IF failed THEN memory_cache ELSE Counted(memory_cache, key, window, now)
        current_count == IF failed THEN 0 ELSE store[key].value
    IN  /\ cache_backend \in { "memory", "redis", "redis_failing" }
        /\ TotalCalls < MaxRateCalls
        /\ memory_cache' = store
        /\ mgr' = [call    |-> [op |-> "rate",
                                key |-> [api_name |-> api_name, identifier |-> identifier,
                                         limit |-> limit, window_start |-> window_start,
                                         cache |-> cache_backend, made |-> made],
                                found |-> failed \/ current_count <= limit,
                                value |-> << >>, count |-> current_count, at |-> now],
                   written |-> [w \in DOMAIN mgr.written \cup { who } |->
                                  IF w = who THEN made ELSE mgr.written[w]]]
        /\ UNCHANGED << processor, is_initialized, ollama_client, nlp, confidence_threshold,
                        cache_backend, now, backend, last, watch, hist, calls, app >>
        /\ UNCHANGED BesidesMgr

\* a CacheManager on its in-process store, or on a server that may fail
InitRate ==
    InitWith({ NoJson }, { NoContent }, { DefaultThreshold }, { "memory", "redis" })
    /\ processor = "cached"

NextRate ==
    \/ \E api_name \in ApiNames, identifier \in Identifiers, limit \in RateLimits :
          CheckRateLimit(api_name, identifier, limit, RateWindow)
    \/ CacheBackendFlips
    \/ Tick

SpecRate == InitRate /\ [][NextRate]_vars

\* within one window the k-th call of an (api name, identifier) returns
\* (k <= limit, k), whatever the calls of the others
RateCounted ==
    (mgr.call.op = "rate" /\ mgr.call.key.cache = "memory") =>
        /\ mgr.call.count = mgr.call.key.made
        /\ mgr.call.found = (mgr.call.key.made <= mgr.call.key.limit)

\* a failure of the store allows the request: (True, 0)
RateErrorAllows ==
    (mgr.call.op = "rate" /\ mgr.call.key.cache = "redis_failing") =>
        mgr.call.found /\ mgr.call.count = 0

\* C30: with the in-process store the k-th call of one api name and
\* identifier within one window returns (k <= limit, k), the count starts
\* again at 1 in the next window, the counters of different identifiers or
\* api names do not affect each other, and an internal error allows the
\* request with count 0
C30_RateLimitPerCaller ==
    RateCounted /\ RateErrorAllows

\* the first call of ("a:b", "c") in its window, made on the in-process
\* store after ("a", "b:c") was counted in the same window
C30_OtherCallerCounted ==
    /\ mgr.call.op = "rate"
    /\ mgr.call.key.cache = "memory"
    /\ mgr.call.key.api_name = "a:b" /\ mgr.call.key.identifier = "c"
    /\ mgr.call.key.made = 1
    /\ CallsMade("a", "b:c", mgr.call.key.window_start) >= 1

(***************************************************************************)
(* services/background_tasks.py: BackgroundTaskManager.  start() has no    *)
(* await: it runs whole.  stop() suspends once, at asyncio.gather, until   *)
(* the tasks it passed to gather are done; whatever else the event loop    *)
(* holds runs meanwhile.  btm.loops is every loop task ever created, in    *)
(* order of creation: a task is "created" until the event loop first runs  *)
(* it, "sleeping" at its await asyncio.sleep, "done" when it has returned  *)
(* or was cancelled; cancelled is task.cancel() called on it.              *)
(***************************************************************************)
MaxStarts == 3

LoopTask(kind) == [kind |-> kind, state |-> "created", cancelled |-> FALSE]

\* the tasks of self.tasks, as a set
Held(tasks) == { tasks[i] : i \in DOMAIN tasks }

\* task.cancel() on every task of `ids`: a task that is done ignores it
Cancel(loops, ids) ==
    [id \in DOMAIN loops |->
        IF id \in ids /\ loops[id].state # "done"
        THEN [loops[id] EXCEPT !.cancelled = TRUE]
        ELSE loops[id]]

ManagerBystanders == << mgr, monitor, approvals, action_items, auth_tokens, oauth_states >>

\* BackgroundTaskManager.start
Start ==
    /\ Len(btm.loops) + 2 <= 2 * MaxStarts
    /\ btm' =
         IF btm.is_running
         THEN [btm EXCEPT !.stop_returned = FALSE]
         ELSE LET email_task == Len(btm.loops) + 1
                  teams_task == Len(btm.loops) + 2
              IN  [btm EXCEPT !.is_running = TRUE,
                              !.loops = @ \o << LoopTask("email"), LoopTask("teams") >>,
                              !.tasks = @ \o << email_task, teams_task >>,
                              !.stop_returned = FALSE]
    /\ UNCHANGED << ProcessorVars, app, ManagerBystanders >>

\* BackgroundTaskManager.stop up to its await: returns at once when not
\* running (or when gather has nothing to wait for), else cancels every task
\* of self.tasks and suspends until these are done
StopBegins ==
    /\ btm' =
         IF ~btm.is_running
         THEN [btm EXCEPT !.stop_returned = TRUE]
         ELSE IF btm.tasks = << >>
           THEN [btm EXCEPT !.is_running = FALSE, !.stop_returned = TRUE]
           ELSE [btm EXCEPT !.is_running = FALSE,
                            !.loops = Cancel(@, Held(btm.tasks)),
                            !.stops = @ \cup { Held(btm.tasks) }]
    /\ btm' # btm
    /\ UNCHANGED << ProcessorVars, app, ManagerBystanders >>

\* stop() resumed by gather, the tasks it waited for being done:
\* self.tasks.clear(), then it returns
StopResumes(awaited) ==
    /\ awaited \in btm.stops
    /\ \A id \in awaited : btm.loops[id].state = "done"
    /\ btm' = [btm EXCEPT !.tasks = << >>, !.stops = @ \ { awaited },
                          !.stop_returned = TRUE]
    /\ UNCHANGED << ProcessorVars, app, ManagerBystanders >>

\* the event loop runs a loop task: a cancelled one ends (CancelledError at
\* its await, or before its first step); another tests `while self.is_running`
\* and sleeps again or returns
LoopRuns(id) ==
    /\ id \in DOMAIN btm.loops
    /\ btm.loops[id].state # "done"
    /\ btm' = [btm EXCEPT !.loops[id].state =
                 IF btm.loops[id].cancelled \/ ~btm.is_running THEN "done" ELSE "sleeping"]
    /\ btm' # btm
    /\ UNCHANGED << ProcessorVars, app, ManagerBystanders >>

InitManager ==
    InitWith({ NoJson }, { NoContent }, { DefaultThreshold }, { "absent" })
    /\ processor = "simple"

NextManager ==
    \/ Start
    \/ StopBegins
    \/ \E awaited \in btm.stops : StopResumes(awaited)
    \/ \E id \in DOMAIN btm.loops : LoopRuns(id)

SpecManager == InitManager /\ [][NextManager]_vars

\* a loop task that is not done and that nobody cancelled
Alive(id) == btm.loops[id].state # "done" /\ ~btm.loops[id].cancelled
AliveOf(kind) == { id \in DOMAIN btm.loops : Alive(id) /\ btm.loops[id].kind = kind }

\* C22: in any interleaving of start() and stop(), at most one email loop and
\* one Teams loop are alive, every live loop task is held in self.tasks, and
\* once a stop() has returned with no later start() no loop is still running
C22_LoopsOwnedAndStopped ==
    /\ Cardinality(AliveOf("email")) <= 1
    /\ Cardinality(AliveOf("teams")) <= 1
    /\ \A id \in DOMAIN btm.loops : Alive(id) => id \in Held(btm.tasks)
    /\ btm.stop_returned => \A id \in DOMAIN btm.loops : ~Alive(id)

\* the latest stop() began after every start() and has returned, no stop()
\* is suspended, and a loop nobody cancelled is alive and not in self.tasks
C22_LoopDroppedByStop ==
    /\ btm.stop_returned
    /\ ~btm.is_running
    /\ btm.stops = {}
    /\ btm.tasks = << >>
    /\ \E id \in DOMAIN btm.loops : Alive(id)

(***************************************************************************)
(* services/background_monitor.py: BackgroundMonitor.  start_monitoring    *)
(* has no await.  stop_monitoring suspends once, at `await                 *)
(* self.monitoring_task`.  The loop task suspends inside a cycle (the      *)
(* Wrike synchronisation) and at asyncio.sleep.  monitor.loops is every    *)
(* loop task ever created; a stop that another call overlapped (a start    *)
(* or stop that ran while it was suspended) is kept in monitor.overlapped. *)
(* cycles_run and cycles_raised count the cycles that ended and those      *)
(* that ended by raising.                                                  *)
(***************************************************************************)
MaxMonitorStarts == 2
MaxCycles == 3

MonitorBystanders == << mgr, btm, approvals, action_items, auth_tokens, oauth_states >>

\* BackgroundMonitor.start_monitoring
StartMonitoring ==
    /\ monitor.is_running \/ Len(monitor.loops) < MaxMonitorStarts
    /\ monitor' =
         IF monitor.is_running
         THEN [monitor EXCEPT !.stop_returned = FALSE]
         ELSE [monitor EXCEPT !.is_running = TRUE,
                              !.loops = Append(@, [state |-> "created", cancelled |-> FALSE]),
                              !.monitoring_task = Len(monitor.loops) + 1,
                              !.overlapped = @ \cup monitor.stops,
                              !.stop_returned = FALSE]
    /\ UNCHANGED << ProcessorVars, app, MonitorBystanders >>

\* BackgroundMonitor.stop_monitoring up to its await: returns at once when
\* not running; else clears is_running, cancels the loop task and waits for it
StopMonitoringBegins ==
    /\ monitor' =
         IF ~monitor.is_running
         THEN [monitor EXCEPT !.stop_returned = (monitor.stops = {})]
         ELSE LET task == monitor.monitoring_task
              IN  IF monitor.loops[task].state = "done"
                  THEN [monitor EXCEPT !.is_running = FALSE,
                                       !.stop_returned = (monitor.stops = {})]
                  ELSE [monitor EXCEPT !.is_running = FALSE,
                                       !.loops[task].cancelled = TRUE,
                                       !.stops = @ \cup { task },
                                       !.overlapped =
                                          IF monitor.stops = {} THEN @ ELSE @ \cup { task }]
    /\ monitor' # monitor
    /\ UNCHANGED << ProcessorVars, app, MonitorBystanders >>

\* stop_monitoring resumed, the task it awaited being done (its
\* CancelledError, if any, is passed over): the uptime is computed, it returns
StopMonitoringResumes(task) ==
    /\ task \in monitor.stops
    /\ monitor.loops[task].state = "done"
    /\ monitor' = [monitor EXCEPT !.stops = @ \ { task },
                                  !.overlapped = @ \ { task },
                                  !.stop_returned = task \notin monitor.overlapped]
    /\ UNCHANGED << ProcessorVars, app, MonitorBystanders >>

\* the end of a cycle without the inner try: an exception ends the loop
CycleEnds_ErrorFatal(m, task, cycle) ==
    IF cycle = "raised"
    THEN [m EXCEPT !.loops[task].state = "done",
                   !.cycles_run = @ + 1, !.cycles_raised = @ + 1, !.last_cycle = cycle]
    ELSE [m EXCEPT !.total_monitoring_cycles = @ + 1, !.loops[task].state = "sleeping",
                   !.cycles_run = @ + 1, !.last_cycle = cycle]

\* _monitoring_loop, the inner try: a cycle that returns is counted, one that
\* raises an Exception sets last_error; either way the loop goes to sleep
CycleEnds(m, task, cycle) ==
    IF cycle = "raised"
    THEN [m EXCEPT !.last_error = "Monitoring cycle error", !.loops[task].state = "sleeping",
                   !.cycles_run = @ + 1, !.cycles_raised = @ + 1, !.last_cycle = cycle]
    ELSE [m EXCEPT !.total_monitoring_cycles = @ + 1, !.loops[task].state = "sleeping",
                   !.cycles_run = @ + 1, !.last_cycle = cycle]

\* the event loop runs the loop task: a cancelled task ends (CancelledError,
\* caught by the outer try, or before its first step); a task created or
\* woken from its sleep tests `while self.is_running` and begins a cycle or
\* returns; a task inside a cycle ends the cycle
MonitoringLoopRuns(task, cycle) ==
    /\ task \in DOMAIN monitor.loops
    /\ monitor.loops[task].state # "done"
    /\ monitor' =
         IF monitor.loops[task].cancelled \/
            (monitor.loops[task].state # "in_cycle" /\ ~monitor.is_running)
           THEN [monitor EXCEPT !.loops[task].state = "done"]
         ELSE IF monitor.loops[task].state = "in_cycle"
           THEN CycleEnds(monitor, task, cycle)
           ELSE [monitor EXCEPT !.loops[task].state = "in_cycle"]
    /\ monitor'.cycles_run <= MaxCycles
    /\ UNCHANGED << ProcessorVars, app, MonitorBystanders >>

InitMonitor ==
    InitWith({ NoJson }, { NoContent }, { DefaultThreshold }, { "absent" })
    /\ processor = "simple"

NextMonitor ==
    \/ StartMonitoring
    \/ StopMonitoringBegins
    \/ \E task \in monitor.stops : StopMonitoringResumes(task)
    \/ \E task \in DOMAIN monitor.loops, cycle \in { "returned", "raised" } :
          MonitoringLoopRuns(task, cycle)

SpecMonitor == InitMonitor /\ [][NextMonitor]_vars

\* the loop tasks that are not done and that nobody cancelled
AliveMonitoringLoops ==
    { task \in DOMAIN monitor.loops :
        monitor.loops[task].state # "done" /\ ~monitor.loops[task].cancelled }

ReviewStatuses == { "pending", "approved", "rejected", "created", "archived" }

\* WrikeIntegrator.__init__: self.access_token = None
WrikeAccessToken == "None"

\* what Wrike would answer a POST /tasks (any other answer has no "data")
WrikeReplies == { "http_error", "task" }

\* an id of the request that names no row
MissingId == MaxReviewItems + 1

\* WrikeIntegrator.create_task_from_action_item: _get_headers raises
\* ValueError without a token; an HTTP error is raised as Exception; else
\* the first element of "data", or {} when there is none (`made` is what
\* Wrike holds then: the task of that id, or one whose id the answer left out)
CreateTaskFromActionItem(access_token, reply, id) ==
    IF access_token = "None" THEN [raised |-> TRUE, task_id |-> "None", made |-> {}]
    ELSE IF reply = "http_error" THEN [raised |-> TRUE, task_id |-> "None", made |-> {}]
    ELSE IF reply = "task"
      THEN [raised |-> FALSE, task_id |-> "task" \o ToString(id),
            made |-> { "task" \o ToString(id) }]
      ELSE [raised |-> FALSE, task_id |-> "None", made |-> { "untold" }]

\* approve without the test of the status
Approved_Unguarded(a, id, reply) ==
    IF id \notin DOMAIN a.items THEN [items |-> a.items, tracker |-> a.tracker,
                                       result |-> "not_found", code |-> 404]
    ELSE LET wrike_task == CreateTaskFromActionItem(WrikeAccessToken, reply, id)
         IN  IF wrike_task.raised
             THEN [items   |-> [a.items EXCEPT ![id].status = "approved"],
                   tracker |-> a.tracker, result |-> "failed", code |-> 500]
             ELSE [items   |-> [a.items EXCEPT ![id].status = "created",
                                               ![id].wrike_task_id = wrike_task.task_id],
                   tracker |-> a.tracker \cup wrike_task.made,
                   result  |-> "created", code |-> 200]

\* approve_action_item: 404, 400 when not pending, else created with the
\* task's id, or approved (and 500) when the creation raised
Approved(a, id, reply) ==
    IF id \notin DOMAIN a.items THEN [items |-> a.items, tracker |-> a.tracker,
                                       result |-> "not_found", code |-> 404]
    ELSE IF a.items[id].status # "pending"
      THEN [items |-> a.items, tracker |-> a.tracker, result |-> "not_pending", code |-> 400]
    ELSE LET wrike_task == CreateTaskFromActionItem(WrikeAccessToken, reply, id)
         IN  IF wrike_task.raised
             THEN [items   |-> [a.items EXCEPT ![id].status = "approved"],
                   tracker |-> a.tracker, result |-> "failed", code |-> 500]
             ELSE [items   |-> [a.items EXCEPT ![id].status = "created",
                                               ![id].wrike_task_id = wrike_task.task_id],
                   tracker |-> a.tracker \cup wrike_task.made,
                   result  |-> "created", code |-> 200]

\* one turn of the loop of batch_approve_action_items: as approve, but a
\* creation that raised only adds to `errors`
BatchApprovedOne(a, id, reply) ==
    IF id \notin DOMAIN a.items THEN [items |-> a.items, tracker |-> a.tracker,
                                       result |-> "not_found"]
    ELSE IF a.items[id].status # "pending"
      THEN [items |-> a.items, tracker |-> a.tracker, result |-> "not_pending"]
    ELSE LET wrike_task == CreateTaskFromActionItem(WrikeAccessToken, reply, id)
         IN  IF wrike_task.raised
             THEN [items |-> a.items, tracker |-> a.tracker, result |-> "failed"]
             ELSE [items   |-> [a.items EXCEPT ![id].status = "created",
                                               ![id].wrike_task_id = wrike_task.task_id],
                   tracker |-> a.tracker \cup wrike_task.made,
                   result  |-> "created"]

\* batch_approve_action_items: the turns in the order of item_ids, one commit
RECURSIVE BatchApproved(_, _, _, _)
BatchApproved(a, item_ids, reply, results) ==
    IF item_ids = << >>
    THEN [items |-> a.items, tracker |-> a.tracker, results |-> results]
    ELSE LET one == BatchApprovedOne(a, Head(item_ids), reply)
         IN  BatchApproved([a EXCEPT !.items = one.items, !.tracker = one.tracker],
                           Tail(item_ids), reply, Append(results, one.result))

ReviewBystanders == << mgr, btm, monitor, action_items, auth_tokens, oauth_states >>

\* POST /{item_id}/approve
ApproveActionItem(id, reply) ==
    /\ LET done == Approved(approvals, id, reply)
       IN  approvals' = [items |-> done.items, tracker |-> done.tracker,
                         response |-> [op |-> "approve", ids |-> << id >>,
                                       results |-> << done.result >>, code |-> done.code]]
    /\ UNCHANGED << ProcessorVars, app, ReviewBystanders >>

\* POST /{item_id}/reject
RejectActionItem(id) ==
    /\ approvals' =
         IF id \notin DOMAIN approvals.items
         THEN [approvals EXCEPT !.response = [op |-> "reject", ids |-> << id >>,
                                              results |-> << "not_found" >>, code |-> 404]]
         ELSE IF approvals.items[id].status # "pending"
           THEN [approvals EXCEPT !.response = [op |-> "reject", ids |-> << id >>,
                                                results |-> << "not_pending" >>, code |-> 400]]
           ELSE [approvals EXCEPT !.items[id].status = "rejected",
                                  !.response = [op |-> "reject", ids |-> << id >>,
                                                results |-> << "rejected" >>, code |-> 200]]
    /\ UNCHANGED << ProcessorVars, app, ReviewBystanders >>

\* POST /batch/approve
BatchApproveActionItems(item_ids, reply) ==
    /\ LET done == BatchApproved(approvals, item_ids, reply, << >>)
       IN  approvals' = [items |-> done.items, tracker |-> done.tracker,
                         response |-> [op |-> "batch", ids |-> item_ids,
                                       results |-> done.results, code |-> 200]]
    /\ UNCHANGED << ProcessorVars, app, ReviewBystanders >>

\* PUT /{item_id}: the fields of the request are written as they come
UpdateActionItem(id, status, wrike_task_id) ==
    /\ id \in DOMAIN approvals.items
    /\ approvals' =
         [approvals EXCEPT !.items[id] = [status |-> status, wrike_task_id |-> wrike_task_id,
                                          updated |-> TRUE],
                           !.response = [op |-> "update", ids |-> << id >>,
                                         results |-> << "updated" >>, code |-> 200]]
    /\ UNCHANGED << ProcessorVars, app, ReviewBystanders >>

RequestIds == ReviewIds \cup { MissingId }

InitReview ==
    InitWith({ NoJson }, { NoContent }, { DefaultThreshold }, { "absent" })
    /\ processor = "simple"

NextReview ==
    \/ \E id \in RequestIds, reply \in WrikeReplies : ApproveActionItem(id, reply)
    \/ \E id \in RequestIds : RejectActionItem(id)
    \/ \E item_ids \in SeqsUpTo(RequestIds, 2), reply \in WrikeReplies :
          BatchApproveActionItems(item_ids, reply)
    \/ \E id \in ReviewIds, status \in ReviewStatuses, wrike_task_id \in { "None", "manual" } :
          UpdateActionItem(id, status, wrike_task_id)

SpecReview == InitReview /\ [][NextReview]_vars

WorkflowRoutes == { "approve", "reject", "batch" }

\* the request just served named row `id` and answered it with `result`
Answered(id, result) ==
    \E i \in DOMAIN approvals'.response.ids :
        approvals'.response.ids[i] = id /\ approvals'.response.results[i] = result

\* C24: approve, reject and batch approve change a row only when its status
\* is pending: on a row in any other status they report an error and leave
\* its status and wrike_task_id as they were, and a row they change is no
\* longer pending, so no row is approved or rejected twice through them
C24_OnlyPendingChanged ==
    [][approvals'.response.op \in WorkflowRoutes =>
         \A id \in ReviewIds :
            /\ approvals.items[id].status # "pending" =>
                  /\ approvals'.items[id] = approvals.items[id]
                  /\ \A i \in DOMAIN approvals'.response.ids :
                        approvals'.response.ids[i] = id =>
                           approvals'.response.results[i] = "not_pending"
            /\ approvals'.items[id] # approvals.items[id] =>
                  /\ approvals.items[id].status = "pending"
                  /\ approvals'.items[id].status \in { "approved", "rejected", "created" }
    ]_vars

\* batch approve was called on a row whose status is created and on a row
\* that approve had left approved: both reported, neither changed
C24_NonPendingReported ==
    /\ approvals.response.op = "batch"
    /\ approvals.response.ids = << 1, 2 >>
    /\ approvals.response.results = << "not_pending", "not_pending" >>
    /\ approvals.items[1].status = "created"
    /\ approvals.items[2].status = "approved" /\ ~approvals.items[2].updated

\* the rows of the latest request whose task creation failed
FailedRows ==
    { approvals.response.ids[i] :
        i \in { j \in DOMAIN approvals.response.ids : approvals.response.results[j] = "failed" } }

\* C25: after approve and batch approve operations on rows that started
\* pending with no Wrike task id, a row has status created only with the id
\* of a task Wrike created as its wrike_task_id; when the creation of the
\* task fails the row ends with status approved and no wrike_task_id
C25_CreatedMeansTask ==
    /\ \A id \in ReviewIds :
          (approvals.items[id].status = "created" /\ ~approvals.items[id].updated) =>
             approvals.items[id].wrike_task_id \in approvals.tracker
    /\ approvals.response.op \in { "approve", "batch" } =>
          \A id \in FailedRows :
             ~approvals.items[id].updated =>
                /\ approvals.items[id].status = "approved"
                /\ approvals.items[id].wrike_task_id = "None"

\* batch approve has just failed to create the task of a pending row that no
\* other route wrote, and the row is pending still
C25_BatchFailureLeftPending ==
    /\ approvals.response.op = "batch"
    /\ approvals.response.ids = << 1 >>
    /\ approvals.response.results = << "failed" >>
    /\ approvals.items[1] = [status |-> "pending", wrike_task_id |-> "None", updated |-> FALSE]

(***************************************************************************)
(* api/action_items.py: update_action_item and bulk_update_action_items    *)
(* on the rows of models/action_items.py.  A field of the request is       *)
(* "unset" when the request does not carry it and "null" when it carries   *)
(* null; completed_at 0 is None; utcnow() grows with every request.        *)
(***************************************************************************)
MaxUpdates == 2

\* ActionItemStatus
ItemStatuses == { "pending", "in_progress", "completed", "cancelled" }

\* what a request may carry as status and as priority
StatusFields   == ItemStatuses \cup { "unset", "null" }
PriorityFields == { "unset", "high" }

\* the completion timestamp written whenever the status is completed
CompletedAt_Restamped(row, status, t) ==
    IF status = "completed" THEN t
    ELSE IF status \notin { "unset", "null" } THEN 0
    ELSE row.completed_at

\* the completion timestamp after an update carrying `status`, at time t:
\* set when the status is completed and it was None, emptied by any other
\* status, kept otherwise
CompletedAt(row, status, t) ==
    IF status = "completed" /\ row.completed_at = 0 THEN t
    ELSE IF status \notin { "unset", "null", "completed" } THEN 0
    ELSE row.completed_at

\* setattr for every field the request carries, then the completion timestamp
Updated(row, status, priority, t) ==
    [status       |-> IF status = "unset" THEN row.status ELSE status,
     priority     |-> IF priority = "unset" THEN row.priority ELSE priority,
     completed_at |-> CompletedAt(row, status, t)]

\* db.commit(): status is a NOT NULL column, a null status fails the commit
\* and nothing is written
Commits(rows) == \A id \in DOMAIN rows : rows[id].status # "null"

\* the rows after the request wrote `ids`, and its HTTP status
Written(ids, status, priority) ==
    LET found   == ids \cap DOMAIN action_items.rows
        written == [id \in DOMAIN action_items.rows |->
                      IF id \in found
                      THEN Updated(action_items.rows[id], status, priority, action_items.utcnow)
                      ELSE action_items.rows[id]]
    IN  IF found = {} THEN [rows |-> action_items.rows, code |-> 404]
        ELSE IF ~Commits(written) THEN [rows |-> action_items.rows, code |-> 500]
        ELSE [rows |-> written, code |-> 200]

ActionItemBystanders == << mgr, btm, monitor, approvals, auth_tokens, oauth_states >>

\* the table and the clock after a request, with what it carried and answered
AfterRequest(op, ids, status, priority) ==
    LET done == Written(ids, status, priority)
    IN  [rows    |-> done.rows,
         utcnow  |-> action_items.utcnow + 1,
         request |-> [op |-> op, ids |-> ids, status |-> status,
                      priority |-> priority, code |-> done.code]]

\* PATCH /{item_id}
UpdateItem(item_id, status, priority) ==
    /\ action_items.utcnow <= MaxUpdates
    /\ action_items' = AfterRequest("update", { item_id }, status, priority)
    /\ UNCHANGED << ProcessorVars, app, ActionItemBystanders >>

\* POST /bulk-update
BulkUpdateActionItems(item_ids, status, priority) ==
    /\ action_items.utcnow <= MaxUpdates
    /\ action_items' = AfterRequest("bulk", item_ids, status, priority)
    /\ UNCHANGED << ProcessorVars, app, ActionItemBystanders >>

\* the ids a request may name: the rows and one id of no row
RowIds == 1..(MaxRows + 1)

\* the lists of ids a bulk request may name: two ids, or the id of no row alone
BulkIds == { ids \in SUBSET RowIds : Cardinality(ids) = 2 } \cup { { MaxRows + 1 } }

InitItems ==
    InitWith({ NoJson }, { NoContent }, { DefaultThreshold }, { "absent" })
    /\ processor = "simple"

NextItems ==
    \/ \E item_id \in RowIds, status \in StatusFields, priority \in PriorityFields :
          UpdateItem(item_id, status, priority)
    \/ \E item_ids \in BulkIds, status \in StatusFields, priority \in PriorityFields :
          BulkUpdateActionItems(item_ids, status, priority)

SpecItems == InitItems /\ [][NextItems]_vars

\* C26: for rows created pending with completed_at empty, after any sequence
\* of update_action_item and bulk_update_action_items calls completed_at is
\* set if and only if the status is completed; an update that carries no
\* status leaves completed_at as it was, and so does one that sends completed
\* to a row that has a completed_at
C26_CompletedAtFollowsStatus ==
    /\ [](\A id \in DOMAIN action_items.rows :
            (action_items.rows[id].completed_at # 0) <=>
            (action_items.rows[id].status = "completed"))
    /\ [][\A id \in DOMAIN action_items.rows :
            (\/ action_items'.request.status = "unset"
             \/ (action_items'.request.status = "completed"
                 /\ action_items.rows[id].completed_at # 0))
            => action_items'.rows[id].completed_at = action_items.rows[id].completed_at]_vars

\* a row completed by the first request keeps its completed_at through a
\* later bulk request that sent completed again and completed another row
C26_CompletedTwice ==
    /\ action_items.request.op = "bulk"
    /\ action_items.request.status = "completed"
    /\ action_items.request.code = 200
    /\ \E id, other \in action_items.request.ids \cap DOMAIN action_items.rows :
          /\ action_items.rows[id].completed_at = 1
          /\ action_items.rows[other].completed_at = 2

(***************************************************************************)
(* models/auth_tokens.py: AuthToken.store_token, get_valid_token and       *)
(* revoke_token on the rows of auth_tokens.  store_token and revoke_token  *)
(* have no await that suspends; get_valid_token suspends at the refresh    *)
(* of an expired token.  Times are seconds, expires_at 0 is None, row 0 is *)
(* None.  auth_tokens.gets are the calls suspended at their refresh, with  *)
(* the row they read; auth_tokens.returned is the latest call that         *)
(* returned; deactivated[p] tells that get_valid_token made p's token      *)
(* inactive and that store_token was not called since; auth_tokens.calls   *)
(* counts the calls made.                                                  *)
(***************************************************************************)
MaxTokenCalls == 4
MaxAuthTicks == 2

\* buffer_minutes: int = 5
BufferSeconds == 300

\* the clock moves by the length of the buffer
AuthTickStep == BufferSeconds

\* what a token endpoint answers: with or without a refresh token, without
\* expires_in (0) or with a lifetime of one or of three buffers
TokenData ==
    { [refresh_token |-> "None",    expires_in |-> 0],
      [refresh_token |-> "None",    expires_in |-> 3 * BufferSeconds],
      [refresh_token |-> "refresh", expires_in |-> 3 * BufferSeconds],
      [refresh_token |-> "refresh", expires_in |-> BufferSeconds] }

\* the rows of `provider` that are active
ActiveRows(rows, provider) ==
    { i \in DOMAIN rows : rows[i].provider = provider /\ rows[i].is_active }

\* session.query(cls).filter(provider, is_active).first(): a row or None
FirstActive(rows, provider) ==
    IF ActiveRows(rows, provider) = {} THEN 0
    ELSE CHOOSE i \in ActiveRows(rows, provider) : \A j \in ActiveRows(rows, provider) : i <= j

\* expires_at of a token stored at time t ("expires_in" absent: None)
ExpiresAt(token_data, t) ==
    IF token_data.expires_in = 0 THEN 0 ELSE t + token_data.expires_in

NewRow(provider, token_data, t) ==
    [provider |-> provider, refresh_token |-> token_data.refresh_token,
     expires_at |-> ExpiresAt(token_data, t), is_active |-> TRUE]

\* store_token that adds a row whether or not an active one exists
Stored_AlwaysNew(rows, provider, token_data, t) ==
    [rows |-> Append(rows, NewRow(provider, token_data, t)), row |-> Len(rows) + 1]

\* store_token: the active row of the provider is overwritten, or a new row
\* is added when there is none; returns that row
Stored(rows, provider, token_data, t) ==
    LET existing_token == FirstActive(rows, provider)
    IN  IF existing_token # 0
        THEN [rows |-> [rows EXCEPT ![existing_token] = NewRow(provider, token_data, t)],
              row  |-> existing_token]
        ELSE [rows |-> Append(rows, NewRow(provider, token_data, t)), row |-> Len(rows) + 1]

\* token.expires_at <= utcnow() + buffer, for a token that has an expires_at
ExpiredWithBuffer(token, t) ==
    token.expires_at # 0 /\ token.expires_at <= t + BufferSeconds

TokenBystanders == << mgr, btm, monitor, approvals, action_items, oauth_states >>

Returned(op, provider, row, via) ==
    [op |-> op, provider |-> provider, row |-> row, via |-> via, at |-> auth_tokens.utcnow]

\* AuthToken.store_token
StoreToken(provider, token_data) ==
    /\ auth_tokens.calls < MaxTokenCalls
    /\ LET done == Stored(auth_tokens.rows, provider, token_data, auth_tokens.utcnow)
       IN  auth_tokens' = [auth_tokens EXCEPT
                            !.calls = @ + 1,
                            !.rows = done.rows,
                            !.returned = Returned("store", provider, done.row, "stored"),
                            !.deactivated[provider] = FALSE]
    /\ UNCHANGED << ProcessorVars, app, TokenBystanders >>

\* AuthToken.get_valid_token up to its await: None without an active row;
\* the row when it is not expired; an expired row without refresh token is
\* made inactive (None returned); one with a refresh token is refreshed
GetValidTokenBegins(provider) ==
    /\ auth_tokens.calls < MaxTokenCalls
    /\ LET token == FirstActive(auth_tokens.rows, provider)
           called == [auth_tokens EXCEPT !.calls = @ + 1]
       IN  auth_tokens' =
             IF token = 0
               THEN [called EXCEPT !.returned = Returned("get", provider, 0, "none")]
             ELSE IF ~ExpiredWithBuffer(auth_tokens.rows[token], auth_tokens.utcnow)
               THEN [called EXCEPT !.returned = Returned("get", provider, token, "stored")]
             ELSE IF auth_tokens.rows[token].refresh_token = "None"
               THEN [called EXCEPT !.rows[token].is_active = FALSE,
                                   !.deactivated[provider] = TRUE,
                                   !.returned = Returned("get", provider, 0, "expired")]
               ELSE [called EXCEPT !.gets = @ \cup { [provider |-> provider, token |-> token] }]
    /\ UNCHANGED << ProcessorVars, app, TokenBystanders >>

\* get_valid_token resumed by a refresh that raised: the row it read is made
\* inactive, None is returned
RefreshFails(call) ==
    /\ call \in auth_tokens.gets
    /\ auth_tokens' = [auth_tokens EXCEPT
                         !.gets = @ \ { call },
                         !.rows[call.token].is_active = FALSE,
                         !.deactivated[call.provider] = TRUE,
                         !.returned = Returned("get", call.provider, 0, "refresh_failed")]
    /\ UNCHANGED << ProcessorVars, app, TokenBystanders >>

\* get_valid_token resumed by the answer of the refresh: what store_token
\* returns for it is returned
RefreshAnswers(call, new_token_data) ==
    /\ call \in auth_tokens.gets
    /\ LET done == Stored(auth_tokens.rows, call.provider, new_token_data, auth_tokens.utcnow)
       IN  auth_tokens' = [auth_tokens EXCEPT
                            !.gets = @ \ { call },
                            !.rows = done.rows,
                            !.deactivated[call.provider] = FALSE,
                            !.returned = Returned("get", call.provider, done.row, "refreshed")]
    /\ UNCHANGED << ProcessorVars, app, TokenBystanders >>

\* AuthToken.revoke_token
RevokeToken(provider) ==
    /\ auth_tokens.calls < MaxTokenCalls
    /\ LET token == FirstActive(auth_tokens.rows, provider)
           called == [auth_tokens EXCEPT !.calls = @ + 1]
       IN  auth_tokens' =
             IF token = 0
             THEN [called EXCEPT !.returned = Returned("revoke", provider, 0, "none")]
             ELSE [called EXCEPT !.rows[token].is_active = FALSE,
                                 !.returned = Returned("revoke", provider, token, "revoked")]
    /\ UNCHANGED << ProcessorVars, app, TokenBystanders >>

\* datetime.utcnow() moves on
AuthTick ==
    /\ auth_tokens.utcnow < MaxAuthTicks * AuthTickStep
    /\ auth_tokens' = [auth_tokens EXCEPT !.utcnow = @ + AuthTickStep]
    /\ UNCHANGED << ProcessorVars, app, TokenBystanders >>

InitTokens ==
    InitWith({ NoJson }, { NoContent }, { DefaultThreshold }, { "absent" })
    /\ processor = "simple"

NextTokens ==
    \/ \E provider \in TokenProviders, token_data \in TokenData : StoreToken(provider, token_data)
    \/ \E provider \in TokenProviders : GetValidTokenBegins(provider)
    \/ \E call \in auth_tokens.gets : RefreshFails(call)
    \/ \E call \in auth_tokens.gets, new_token_data \in TokenData :
          RefreshAnswers(call, new_token_data)
    \/ \E provider \in TokenProviders : RevokeToken(provider)
    \/ AuthTick

SpecTokens == InitTokens /\ [][NextTokens]_vars

\* C27: after any sequence and any interleaving of store_token,
\* get_valid_token and revoke_token there is at most one active AuthToken per
\* provider: store_token overwrites the active token instead of adding a
\* second one, and revoke_token leaves no active token for its provider
C27_OneActiveTokenPerProvider ==
    /\ \A provider \in TokenProviders :
          Cardinality(ActiveRows(auth_tokens.rows, provider)) <= 1
    /\ auth_tokens.returned.op = "store" =>
          ActiveRows(auth_tokens.rows, auth_tokens.returned.provider)
             = { auth_tokens.returned.row }
    /\ auth_tokens.returned.op = "revoke" =>
          ActiveRows(auth_tokens.rows, auth_tokens.returned.provider) = {}

\* a refresh that answered after revoke_token had made its row inactive
\* added a second row for the provider, the only active one
C27_StoredAfterRevoke ==
    /\ auth_tokens.returned.op = "get"
    /\ auth_tokens.returned.via = "refreshed"
    /\ auth_tokens.returned.row > 1
    /\ \E i \in DOMAIN auth_tokens.rows :
          /\ i # auth_tokens.returned.row
          /\ auth_tokens.rows[i].provider = auth_tokens.returned.provider
          /\ ~auth_tokens.rows[i].is_active
    /\ ActiveRows(auth_tokens.rows, auth_tokens.returned.provider) = { auth_tokens.returned.row }

\* the token a get_valid_token returned is not expired at its return
ValidReturned ==
    (auth_tokens.returned.op = "get" /\ auth_tokens.returned.row # 0) =>
        ~ExpiredWithBuffer(auth_tokens.rows[auth_tokens.returned.row],
                           auth_tokens.returned.at)

\* an expired token is never returned as it was stored: the call returns
\* None or what the refresh stored
ExpiredNotReturned ==
    (auth_tokens.returned.op = "get" /\ auth_tokens.returned.via = "stored") =>
        ~ExpiredWithBuffer(auth_tokens.rows[auth_tokens.returned.row],
                           auth_tokens.returned.at)

\* a get_valid_token that follows a deactivation, with no store_token in
\* between, returns None
NoneAfterDeactivation ==
    (auth_tokens.returned.op = "get"
        /\ auth_tokens.deactivated[auth_tokens.returned.provider]) =>
        auth_tokens.returned.row = 0

\* C28: get_valid_token returns only a token that is not expired (expires_at
\* later than now + buffer); an expired stored token is refreshed, or made
\* inactive with None returned; after such a deactivation every later
\* get_valid_token returns None until store_token is called
C28_OnlyValidTokenReturned ==
    /\ ValidReturned
    /\ ExpiredNotReturned
    /\ NoneAfterDeactivation

\* get_valid_token returned the token its refresh stored, and that token
\* expires within the buffer
C28_RefreshedTokenExpired ==
    /\ auth_tokens.returned.op = "get"
    /\ auth_tokens.returned.via = "refreshed"
    /\ auth_tokens.returned.row # 0
    /\ ExpiredWithBuffer(auth_tokens.rows[auth_tokens.returned.row],
                         auth_tokens.returned.at)

(***************************************************************************)
(* api/auth.py: MSGraphAuth.get_auth_url and exchange_code_for_token over  *)
(* the module's _oauth_states.  Neither has an await that suspends.         *)
(* oauth_states.states is the dictionary (state i is the i-th value        *)
(* secrets.token_urlsafe produced; a state that was popped maps to         *)
(* NoStateData), oauth_states.issued keeps when and with which scopes each *)
(* state was issued, oauth_states.accepted the states that passed          *)
(* validation, oauth_states.last the latest exchange.                      *)
(***************************************************************************)
MaxStates == 2
MaxOAuthTicks == 3

\* timedelta(minutes=10), in seconds
StateLifetime == 600

OAuthTickStep == StateLifetime \div 2

\* self.scopes
DefaultScopes == << "User.Read", "Mail.Read", "Mail.ReadWrite", "Calendars.Read" >>

\* custom_scopes: None or empty, or a list
CustomScopes == { << >>, << "Mail.Read" >> }

\* results of acquire_token_by_authorization_code
TokenResults == { "token", "error" }

\* _oauth_states.get(state) of a state that is not in the dictionary
NoStateData == [present |-> FALSE, scopes |-> << >>, expires_at |-> 0]

\* _oauth_states.get(state)
StateData(states, state) ==
    IF state \in DOMAIN states THEN states[state] ELSE NoStateData

\* _oauth_states.pop(state, None)
Popped(states, state) ==
    IF state \in DOMAIN states THEN [states EXCEPT ![state] = NoStateData] ELSE states

\* _store_oauth_state for the next state value
StoreOAuthState(states, scopes, t) ==
    Append(states, [present |-> TRUE, scopes |-> scopes, expires_at |-> t + StateLifetime])

\* _validate_and_get_oauth_state: the data of a stored state that has not
\* expired, None otherwise; an expired state is removed
ValidateAndGetOAuthState(states, state, t) ==
    LET state_data == StateData(states, state)
    IN  IF ~state_data.present THEN [state_data |-> NoStateData, states |-> states]
        ELSE IF t > state_data.expires_at
             THEN [state_data |-> NoStateData, states |-> Popped(states, state)]
        ELSE [state_data |-> state_data, states |-> states]

\* exchange_code_for_token that leaves the used state in the dictionary
Exchanged_StateKept(states, state, result, t) ==
    LET validated == ValidateAndGetOAuthState(states, state, t)
    IN  IF ~validated.state_data.present
        THEN [states |-> validated.states, status |-> 400, passed |-> FALSE,
              requested |-> FALSE, scopes |-> << >>]
        ELSE [states |-> validated.states,
              status |-> IF result = "error" THEN 400 ELSE 200, passed |-> TRUE,
              requested |-> TRUE, scopes |-> validated.state_data.scopes]

\* exchange_code_for_token: 400 without a valid state; otherwise the state
\* is removed and the token requested with the scopes stored for it
Exchanged(states, state, result, t) ==
    LET validated == ValidateAndGetOAuthState(states, state, t)
    IN  IF ~validated.state_data.present
        THEN [states |-> validated.states, status |-> 400, passed |-> FALSE,
              requested |-> FALSE, scopes |-> << >>]
        ELSE [states |-> Popped(validated.states, state),
              status |-> IF result = "error" THEN 400 ELSE 200, passed |-> TRUE,
              requested |-> TRUE, scopes |-> validated.state_data.scopes]

OAuthBystanders == << mgr, btm, monitor, approvals, action_items, auth_tokens >>

\* MSGraphAuth.get_auth_url
GetAuthUrl(custom_scopes) ==
    /\ Len(oauth_states.states) < MaxStates
    /\ LET scopes == IF custom_scopes # << >> THEN custom_scopes ELSE DefaultScopes
       IN  oauth_states' = [oauth_states EXCEPT
                              !.states = StoreOAuthState(@, scopes, oauth_states.utcnow),
                              !.issued = Append(@, [at |-> oauth_states.utcnow,
                                                    scopes |-> scopes])]
    /\ UNCHANGED << ProcessorVars, app, OAuthBystanders >>

\* MSGraphAuth.exchange_code_for_token
ExchangeCodeForToken(state, result) ==
    /\ LET done == Exchanged(oauth_states.states, state, result, oauth_states.utcnow)
       IN  oauth_states' = [oauth_states EXCEPT
                              !.states = done.states,
                              !.accepted = IF done.passed THEN @ \cup { state } ELSE @,
                              !.last = [op |-> "exchange", state |-> state,
                                        at |-> oauth_states.utcnow,
                                        known |-> state \in DOMAIN oauth_states.issued,
                                        seen_before |-> state \in oauth_states.accepted,
                                        passed |-> done.passed,
                                        requested |-> done.requested,
                                        scopes |-> done.scopes,
                                        status |-> done.status]]
    /\ UNCHANGED << ProcessorVars, app, OAuthBystanders >>

\* datetime.utcnow() moves on
OAuthTick ==
    /\ oauth_states.utcnow < MaxOAuthTicks * OAuthTickStep
    /\ oauth_states' = [oauth_states EXCEPT !.utcnow = @ + OAuthTickStep]
    /\ UNCHANGED << ProcessorVars, app, OAuthBystanders >>

InitOAuth ==
    InitWith({ NoJson }, { NoContent }, { DefaultThreshold }, { "absent" })
    /\ processor = "simple"

NextOAuth ==
    \/ \E custom_scopes \in CustomScopes : GetAuthUrl(custom_scopes)
    \/ \E state \in 0..MaxStates, result \in TokenResults :
          ExchangeCodeForToken(state, result)
    \/ OAuthTick

SpecOAuth == InitOAuth /\ [][NextOAuth]_vars

\* the latest exchange was made with a state that get_auth_url issued, at
\* most 10 minutes earlier, and that no earlier exchange was accepted with
Acceptable ==
    /\ oauth_states.last.known
    /\ oauth_states.last.at - oauth_states.issued[oauth_states.last.state].at <= StateLifetime
    /\ ~oauth_states.last.seen_before

\* C29: exchange_code_for_token passes state validation only for a state
\* that get_auth_url issued, that is not older than 10 minutes and that was
\* not accepted before; an unknown, expired or already accepted state is
\* rejected with 400 and no token request, and the token is requested with
\* the scopes stored for the state
C29_StateSingleUseAndTimeLimited ==
    oauth_states.last.op = "exchange" =>
        /\ oauth_states.last.passed => Acceptable
        /\ oauth_states.last.passed =>
              /\ oauth_states.last.requested
              /\ oauth_states.last.scopes
                    = oauth_states.issued[oauth_states.last.state].scopes
        /\ ~oauth_states.last.passed =>
              /\ ~oauth_states.last.requested
              /\ oauth_states.last.status = 400

\* a second exchange with a state that is still within its 10 minutes was
\* rejected without a token request
C29_SecondExchangeRejected ==
    /\ oauth_states.last.op = "exchange"
    /\ oauth_states.last.seen_before
    /\ oauth_states.last.at - oauth_states.issued[oauth_states.last.state].at <= StateLifetime
    /\ ~oauth_states.last.passed
    /\ ~oauth_states.last.requested
    /\ oauth_states.last.status = 400

====
